---- MODULE Spec2Model ----
(***************************************************************************)
(* Model of the mediatwin similarity-search core: the hex-string Hamming   *)
(* distance (utils/hash-utils), the BK-tree metric index                   *)
(* (storage/redis/bktree), the SimilarityEngine (search/similarity-engine) *)
(* and the MediaTwin facade (mediatwin.ts).                                *)
(***************************************************************************)
EXTENDS Integers, Sequences, FiniteSets, TLC

(***************************************************************************)
(* Bounds of the model.                                                    *)
(***************************************************************************)
\* largest number of nodes a BK-tree holds in the tree specification
MaxNodes == 3
\* fingerprints of the tree specification are 000000000000000d, d in 0..MaxLowDigit
MaxLowDigit == 2
\* number of distinct media ids
MaxId == 2
\* search thresholds are drawn from 0..MaxThreshold
MaxThreshold == 1
\* largest number of nodes of a tree in the session specification
MaxSessionEntries == 1
\* largest number of nodes of a tree in the index specification
MaxIndexEntries == 2
\* largest number of inputs of a batch in the batch specification
MaxBatch == 3
\* number of add() calls that run concurrently
MaxTasks == 2

(***************************************************************************)
(* Generic helpers.                                                        *)
(***************************************************************************)
Max(a, b) == IF a >= b THEN a ELSE b

Range(seq) == {seq[i] : i \in 1..Len(seq)}

\* the number of occurrences of x in a sequence
Count(seq, x) == Cardinality({i \in 1..Len(seq) : seq[i] = x})

\* two sequences hold the same elements, each as often in one as in the other
SameElements(seq1, seq2) ==
  /\ Len(seq1) = Len(seq2)
  /\ \A i \in 1..Len(seq1) : Count(seq1, seq1[i]) = Count(seq2, seq1[i])

\* a sequence holds exactly the elements of a bag, each as often as the bag
IsBagOf(seq, bag) ==
  /\ \A i \in 1..Len(seq) : seq[i] \in DOMAIN bag
  /\ \A x \in DOMAIN bag : Count(seq, x) = bag[x]

RECURSIVE Flatten(_)
Flatten(seqs) == IF seqs = <<>> THEN <<>> ELSE Head(seqs) \o Flatten(Tail(seqs))

\* the indices 1..n in ascending order of keys[i], equal keys in index order
RECURSIVE SortedIndices(_, _)
SortedIndices(keys, n) ==
  IF n = 0 THEN <<>>
  ELSE LET prev == SortedIndices(keys, n - 1)
           k == Cardinality({i \in 1..(n - 1) : keys[i] <= keys[n]})
       IN  SubSeq(prev, 1, k) \o <<n>> \o SubSeq(prev, k + 1, n - 1)

\* Array.prototype.sort with a comparator that orders by an integer key:
\* a stable sort, ascending in keys[i] (ECMAScript 2019 sort is stable)
SortByKey(seq, keys) ==
  LET order == SortedIndices(keys, Len(seq))
  IN  [r \in 1..Len(seq) |-> seq[order[r]]]

(***************************************************************************)
(* utils/hash-utils: fingerprints are lowercase hex strings, modelled as   *)
(* sequences of one-character strings; a bigint is the sequence of its     *)
(* base-16 limbs, most significant first.                                  *)
(***************************************************************************)
HexChars == <<"0", "1", "2", "3", "4", "5", "6", "7", "8", "9", "a", "b", "c", "d", "e", "f">>

HexDigitValue(c) == (CHOOSE i \in 1..16 : HexChars[i] = c) - 1

hashSizeToHexLength(bits) == IF bits = 256 THEN 64 ELSE 16

\* the sequence of n characters c
HexRepeat(c, n) == [i \in 1..n |-> c]

\* the characters of 0...0d, n of them
LowHash(d, n) == [i \in 1..n |-> IF i = n THEN HexChars[d + 1] ELSE "0"]

\* A fingerprint is a JavaScript string and is held as a string; these are
\* the hex strings of the model: the 16-digit strings 0...0d by d, and the
\* strings of 16 and of 64 digits that are all 0 or all f
LowHashStrings ==
  <<"0000000000000000", "0000000000000001", "0000000000000002", "0000000000000003",
    "0000000000000004", "0000000000000005", "0000000000000006", "0000000000000007",
    "0000000000000008", "0000000000000009", "000000000000000a", "000000000000000b",
    "000000000000000c", "000000000000000d", "000000000000000e", "000000000000000f">>

\* the bitwise complements of the strings 0...0d, by d
HighHashStrings ==
  <<"ffffffffffffffff", "fffffffffffffffe", "fffffffffffffffd", "fffffffffffffffc",
    "fffffffffffffffb", "fffffffffffffffa", "fffffffffffffff9", "fffffffffffffff8",
    "fffffffffffffff7", "fffffffffffffff6", "fffffffffffffff5", "fffffffffffffff4",
    "fffffffffffffff3", "fffffffffffffff2", "fffffffffffffff1", "fffffffffffffff0">>

\* the characters of f...fc, n of them, c the digit 15 - d
HighHash(d, n) == [i \in 1..n |-> IF i = n THEN HexChars[16 - d] ELSE "f"]

ZeroHash(bits) ==
  IF hashSizeToHexLength(bits) = 64
  THEN "0000000000000000000000000000000000000000000000000000000000000000"
  ELSE "0000000000000000"

OnesHash(bits) ==
  IF hashSizeToHexLength(bits) = 64
  THEN "ffffffffffffffffffffffffffffffffffffffffffffffffffffffffffffffff"
  ELSE "ffffffffffffffff"

\* the characters of a hex string of the model
Characters(hex) ==
  IF hex = ZeroHash(256) THEN HexRepeat("0", 64)
  ELSE IF hex = OnesHash(256) THEN HexRepeat("f", 64)
  ELSE IF hex = OnesHash(64) THEN HexRepeat("f", 16)
  ELSE IF \E i \in 1..16 : HighHashStrings[i] = hex
  THEN HighHash((CHOOSE i \in 1..16 : HighHashStrings[i] = hex) - 1, 16)
  ELSE LowHash((CHOOSE i \in 1..16 : LowHashStrings[i] = hex) - 1, 16)

\* BigInt('0x' + hex)
hexToBigInt(hex) == [i \in 1..Len(Characters(hex)) |-> HexDigitValue(Characters(hex)[i])]

Bit(d, i) == (d \div (2 ^ i)) % 2

\* mutant of XorLimb: the bitwise or of the limbs
XorLimbOr(a, b) ==
  Max(Bit(a, 0), Bit(b, 0)) + 2 * Max(Bit(a, 1), Bit(b, 1))
  + 4 * Max(Bit(a, 2), Bit(b, 2)) + 8 * Max(Bit(a, 3), Bit(b, 3))

XorLimb(a, b) ==
  ((Bit(a, 0) + Bit(b, 0)) % 2) + 2 * ((Bit(a, 1) + Bit(b, 1)) % 2)
  + 4 * ((Bit(a, 2) + Bit(b, 2)) % 2) + 8 * ((Bit(a, 3) + Bit(b, 3)) % 2)

\* a & (a - 1) on one non-zero limb: clears its lowest set bit
ClearLowLimbBit(a) ==
  IF Bit(a, 0) = 1 THEN a - 1
  ELSE IF Bit(a, 1) = 1 THEN a - 2
  ELSE IF Bit(a, 2) = 1 THEN a - 4
  ELSE a - 8

PadLimbs(x, n) == [i \in 1..n |-> IF i <= n - Len(x) THEN 0 ELSE x[i - (n - Len(x))]]

\* h1 ^ h2 on bigints: operands are aligned at the least significant limb
BigXor(x, y) ==
  LET n == Max(Len(x), Len(y))
      px == PadLimbs(x, n)
      py == PadLimbs(y, n)
  IN  [i \in 1..n |-> XorLimb(px[i], py[i])]

\* the iterations of the while loop that clear the set bits of one limb
RECURSIVE ClearLimb(_, _)
ClearLimb(a, distance) ==
  IF a = 0 THEN distance ELSE ClearLimb(ClearLowLimbBit(a), distance + 1)

\* while (xor > 0n) { xor &= xor - 1n; distance++ }: every iteration clears
\* the lowest set bit, so the loop runs once per set bit; its iterations are
\* counted limb by limb over the limbs lo..hi
RECURSIVE CountSetBits(_, _, _)
CountSetBits(xor, lo, hi) ==
  IF lo > hi THEN 0
  ELSE IF lo = hi THEN ClearLimb(xor[lo], 0)
  ELSE CountSetBits(xor, lo, (lo + hi) \div 2) + CountSetBits(xor, (lo + hi) \div 2 + 1, hi)

hammingDistance(hash1, hash2) ==
  LET xor == BigXor(hexToBigInt(hash1), hexToBigInt(hash2))
  IN  CountSetBits(xor, 1, Len(xor))

\* xor > 0n
BigPositive(x) == \E i \in 1..Len(x) : x[i] # 0

\* xor & (xor - 1n) for xor > 0n: the lowest set bit, which is in the least
\* significant limb that is not 0, is cleared
ClearLowestSetBit(x) ==
  LET low == CHOOSE i \in 1..Len(x) : x[i] # 0 /\ \A j \in (i + 1)..Len(x) : x[j] = 0
  IN  [x EXCEPT ![low] = ClearLowLimbBit(x[low])]

(***************************************************************************)
(* Inputs of the tree specification.                                       *)
(***************************************************************************)
IdNames == <<"media1", "media2", "media3", "media4">>

MediaIds == {IdNames[i] : i \in 1..MaxId}

Hashes == {LowHashStrings[d + 1] : d \in 0..MaxLowDigit}

Thresholds == 0..MaxThreshold

\* config.hashAlgorithms and the two values of HashSize (types/config)
Algorithms == <<"phash", "dhash">>

HashSizes == {64, 256}

\* an absent fingerprint: hashes[algo] is undefined, which the code tells
\* from a fingerprint by its falsiness, as it would the empty string
NoHash == ""

\* the fingerprints of the given width used with the engine: all bits clear
\* and all bits set
EngineHashes(bits) == {ZeroHash(bits), OnesHash(bits)}

AllHashes == Hashes \cup UNION {EngineHashes(bits) : bits \in HashSizes}

\* hammingDistance tabulated once over the fingerprints of the model, as an
\* explicit function
HammingTable == [p \in AllHashes \X AllHashes |-> hammingDistance(p[1], p[2])] @@ <<>>

Distance(hash1, hash2) == HammingTable[<<hash1, hash2>>]

\* the bag (multiset) with one more copy of x
BagAdd(bag, x) ==
  [y \in DOMAIN bag \cup {x} |-> IF y = x THEN (IF x \in DOMAIN bag THEN bag[x] + 1 ELSE 1) ELSE bag[y]]

\* the bag restricted to the elements that satisfy Keep
BagFilter(bag, Keep(_)) == [y \in {x \in DOMAIN bag : Keep(x)} |-> bag[y]]

EmptyBag == [x \in {} |-> 0]

(***************************************************************************)
(* storage/redis/bktree: BKTree.  Nodes live in an arena (a sequence);     *)
(* a node reference is an index, null is 0.  A children Map is the         *)
(* sequence of its [distance, child] entries in insertion order.           *)
(***************************************************************************)
EmptyTree == [root |-> 0, nodeCount |-> 0, nodes |-> <<>>]

NewNode(hash, mediaId) == [hash |-> hash, mediaId |-> mediaId, children |-> <<>>]

\* Map.get(distance): the child index, or 0 when the key is absent
MapGet(children, distance) ==
  IF \E i \in 1..Len(children) : children[i].distance = distance
  THEN children[CHOOSE i \in 1..Len(children) : children[i].distance = distance].child
  ELSE 0

\* the while(true) walk of insert: the node and edge key the new leaf hangs on
RECURSIVE InsertWalk(_, _, _)
InsertStep(nodes, current, hash, distance, child) ==
  IF child # 0 THEN InsertWalk(nodes, child, hash)
  ELSE [parent |-> current, distance |-> distance]

InsertDescend(nodes, current, hash, distance) ==
  InsertStep(nodes, current, hash, distance, MapGet(nodes[current].children, distance))

InsertWalk(nodes, current, hash) ==
  InsertDescend(nodes, current, hash, Distance(hash, nodes[current].hash))

\* mutant of AttachLeaf: the leaf is set into the children of the root
AttachLeafAtRoot(tree, slot, hash, mediaId) ==
  [root |-> tree.root,
   nodeCount |-> tree.nodeCount + 1,
   nodes |-> Append([tree.nodes EXCEPT ![tree.root].children =
                       Append(@, [distance |-> slot.distance, child |-> Len(tree.nodes) + 1])],
                    NewNode(hash, mediaId))]

\* current.children.set(distance, newNode); nodeCount++
AttachLeaf(tree, slot, hash, mediaId) ==
  [root |-> tree.root,
   nodeCount |-> tree.nodeCount + 1,
   nodes |-> Append([tree.nodes EXCEPT ![slot.parent].children =
                       Append(@, [distance |-> slot.distance, child |-> Len(tree.nodes) + 1])],
                    NewNode(hash, mediaId))]

insert(tree, hash, mediaId) ==
  IF tree.root = 0
  THEN [root |-> 1, nodeCount |-> 1, nodes |-> <<NewNode(hash, mediaId)>>]
  ELSE AttachLeaf(tree, InsertWalk(tree.nodes, tree.root, hash), hash, mediaId)

\* mutant of InPruningInterval: the upper end of the interval lacks the threshold
InPruningIntervalNoSlack(childDistance, distance, threshold) ==
  LET minDistance == Max(0, distance - threshold)
      maxDistance == distance
  IN  childDistance >= minDistance /\ childDistance <= maxDistance

\* the pruning test of search: the child edge keys that are descended into
InPruningInterval(childDistance, distance, threshold) ==
  LET minDistance == Max(0, distance - threshold)
      maxDistance == distance + threshold
  IN  childDistance >= minDistance /\ childDistance <= maxDistance

ChildNodes(entries) == [i \in 1..Len(entries) |-> entries[i].child]

\* the children pushed on the stack, in Map order
PushedChildren(children, distance, threshold) ==
  ChildNodes(SelectSeq(children, LAMBDA c : InPruningInterval(c.distance, distance, threshold)))

\* the stack loop of search: results in visiting order
RECURSIVE SearchLoop(_, _, _, _, _)
SearchVisit(nodes, rest, results, node, distance, queryHash, threshold) ==
  SearchLoop(nodes,
             rest \o PushedChildren(node.children, distance, threshold),
             IF distance <= threshold
             THEN Append(results, [mediaId |-> node.mediaId, hash |-> node.hash,
                                   distance |-> distance])
             ELSE results,
             queryHash, threshold)

SearchPop(nodes, rest, results, node, queryHash, threshold) ==
  SearchVisit(nodes, rest, results, node, Distance(queryHash, node.hash), queryHash, threshold)

SearchLoop(nodes, stack, results, queryHash, threshold) ==
  IF stack = <<>> THEN results
  ELSE SearchPop(nodes, SubSeq(stack, 1, Len(stack) - 1), results, nodes[stack[Len(stack)]],
                 queryHash, threshold)

DistanceKeys(results) == [i \in 1..Len(results) |-> results[i].distance]

\* results.sort((a, b) => a.distance - b.distance)
SortByDistance(results) == SortByKey(results, DistanceKeys(results))

\* mutant of search: the final sort is missing
searchUnsorted(tree, queryHash, threshold) ==
  IF tree.root = 0 THEN <<>>
  ELSE SearchLoop(tree.nodes, <<tree.root>>, <<>>, queryHash, threshold)

search(tree, queryHash, threshold) ==
  IF tree.root = 0 THEN <<>>
  ELSE SortByDistance(SearchLoop(tree.nodes, <<tree.root>>, <<>>, queryHash, threshold))

\* the order in which collectNodes / assignIndex visit the nodes: pre-order,
\* children in Map order
RECURSIVE Preorder(_, _)
Preorder(nodes, idx) ==
  <<idx>> \o Flatten([i \in 1..Len(nodes[idx].children) |->
                        Preorder(nodes, nodes[idx].children[i].child)])

RECURSIVE InsertAll(_, _)
InsertAll(tree, entries) ==
  IF entries = <<>> THEN tree
  ELSE InsertAll(insert(tree, Head(entries).hash, Head(entries).mediaId), Tail(entries))

\* mutant of Entries: the objects are collected in reverse order
EntriesReversed(tree, kept) ==
  [i \in 1..Len(kept) |-> [hash |-> tree.nodes[kept[Len(kept) + 1 - i]].hash,
                           mediaId |-> tree.nodes[kept[Len(kept) + 1 - i]].mediaId]]

\* the { hash, mediaId } objects of the given nodes
Entries(tree, kept) ==
  [i \in 1..Len(kept) |-> [hash |-> tree.nodes[kept[i]].hash, mediaId |-> tree.nodes[kept[i]].mediaId]]

\* mutant of RemoveCollected: collectNodes keeps the matching node as well
RemoveCollectedKeepsMatch(tree, visited, mediaId) ==
  IF ~(\E i \in 1..Len(visited) : tree.nodes[visited[i]].mediaId = mediaId)
  THEN [tree |-> tree, ret |-> FALSE]
  ELSE [tree |-> InsertAll(EmptyTree, Entries(tree, visited)), ret |-> TRUE]

\* mutant of RemoveCollected: root and nodeCount are reset before the found check
RemoveCollectedResetsFirst(tree, visited, mediaId) ==
  IF ~(\E i \in 1..Len(visited) : tree.nodes[visited[i]].mediaId = mediaId)
  THEN [tree |-> EmptyTree, ret |-> FALSE]
  ELSE [tree |-> InsertAll(EmptyTree,
                           Entries(tree, SelectSeq(visited,
                                                   LAMBDA n : tree.nodes[n].mediaId # mediaId))),
        ret |-> TRUE]

\* remove after collectNodes visited the nodes in the given order: found is
\* whether a visited node carries mediaId, nodes are the others
RemoveCollected(tree, visited, mediaId) ==
  IF ~(\E i \in 1..Len(visited) : tree.nodes[visited[i]].mediaId = mediaId)
  THEN [tree |-> tree, ret |-> FALSE]
  ELSE [tree |-> InsertAll(EmptyTree,
                           Entries(tree, SelectSeq(visited,
                                                   LAMBDA n : tree.nodes[n].mediaId # mediaId))),
        ret |-> TRUE]

\* mutant of remove: nodeCount is not reset before the reinsertion, so it
\* keeps its old value when no node is left to reinsert
removeKeepsNodeCount(tree, mediaId) ==
  IF tree.root = 0 THEN [tree |-> tree, ret |-> FALSE]
  ELSE LET r == RemoveCollected(tree, Preorder(tree.nodes, tree.root), mediaId)
       IN  IF r.ret /\ r.tree.root = 0
           THEN [tree |-> [r.tree EXCEPT !.nodeCount = tree.nodeCount], ret |-> TRUE]
           ELSE r

\* remove returns the pair of the tree afterwards and the boolean result
remove(tree, mediaId) ==
  IF tree.root = 0 THEN [tree |-> tree, ret |-> FALSE]
  ELSE RemoveCollected(tree, Preorder(tree.nodes, tree.root), mediaId)

size(tree) == tree.nodeCount

isEmpty(tree) == tree.root = 0

\* the position (from 0) of an element in a sequence without repetitions
IndexOf(seq, x) == (CHOOSE i \in 1..Len(seq) : seq[i] = x) - 1

\* the keys of a JavaScript object whose keys are array indices, as
\* Object.entries enumerates them: ascending numeric order
RECURSIVE ObjectKeys(_)
ObjectKeys(obj) ==
  IF DOMAIN obj = {} THEN <<>>
  ELSE LET k == CHOOSE x \in DOMAIN obj : \A y \in DOMAIN obj : x <= y
       IN  <<k>> \o ObjectKeys([y \in DOMAIN obj \ {k} |-> obj[y]])

\* mutant of SerializedNode: fillChildren fills the root's children only
SerializedNodeRootChildrenOnly(tree, order, n) ==
  [hash |-> tree.nodes[n].hash,
   mediaId |-> tree.nodes[n].mediaId,
   children |-> IF n # tree.root THEN [d \in {} |-> 0]
                ELSE [d \in {tree.nodes[n].children[i].distance :
                               i \in 1..Len(tree.nodes[n].children)} |->
                        IndexOf(order, MapGet(tree.nodes[n].children, d))]]

\* the list entry of node n: assignIndex pushes hash and mediaId, fillChildren
\* sets children[distance] = index of the child; order is the nodeIndexMap
SerializedNode(tree, order, n) ==
  [hash |-> tree.nodes[n].hash,
   mediaId |-> tree.nodes[n].mediaId,
   children |-> [d \in {tree.nodes[n].children[i].distance :
                          i \in 1..Len(tree.nodes[n].children)} |->
                   IndexOf(order, MapGet(tree.nodes[n].children, d))]]

SerializeInOrder(tree, order) ==
  [nodes |-> [i \in 1..Len(order) |-> SerializedNode(tree, order, order[i])],
   count |-> tree.nodeCount]

\* serialize: the node list in pre-order (indices from 0), each entry with
\* the object distance -> child index; updatedAt is a wall-clock stamp that
\* no operation reads and is left out
serialize(tree) ==
  IF tree.root = 0 THEN [nodes |-> <<>>, count |-> 0]
  ELSE SerializeInOrder(tree, Preorder(tree.nodes, tree.root))

\* the children Map of a restored node: one set() per Object.entries pair
RestoredChildren(obj, keys) ==
  [i \in 1..Len(keys) |-> [distance |-> keys[i], child |-> obj[keys[i]] + 1]]

\* mutant of deserialize: nodeCount is not restored
deserializeWithoutCount(data) ==
  IF Len(data.nodes) = 0 THEN EmptyTree
  ELSE [root |-> 1,
        nodeCount |-> 0,
        nodes |-> [i \in 1..Len(data.nodes) |->
                     [hash |-> data.nodes[i].hash,
                      mediaId |-> data.nodes[i].mediaId,
                      children |-> RestoredChildren(data.nodes[i].children,
                                                    ObjectKeys(data.nodes[i].children))]]]

deserialize(data) ==
  IF Len(data.nodes) = 0 THEN EmptyTree
  ELSE [root |-> 1,
        nodeCount |-> data.count,
        nodes |-> [i \in 1..Len(data.nodes) |->
                     [hash |-> data.nodes[i].hash,
                      mediaId |-> data.nodes[i].mediaId,
                      children |-> RestoredChildren(data.nodes[i].children,
                                                    ObjectKeys(data.nodes[i].children))]]]

(***************************************************************************)
(* Numbers of the scoring code are IEEE doubles; they are modelled as       *)
(* exact fractions [num, den] with den > 0 and compared by cross            *)
(* multiplication.                                                          *)
(***************************************************************************)
Rat(n, d) == [num |-> n, den |-> d]

RatAdd(a, b) == Rat(a.num * b.den + b.num * a.den, a.den * b.den)

RatMul(a, b) == Rat(a.num * b.num, a.den * b.den)

\* a / b for b > 0
RatDiv(a, b) == Rat(a.num * b.den, a.den * b.num)

RatLess(a, b) == a.num * b.den < b.num * a.den

RatEq(a, b) == a.num * b.den = b.num * a.den

RatLeq(a, b) == a.num * b.den <= b.num * a.den

RatSub(a, b) == Rat(a.num * b.den - b.num * a.den, a.den * b.den)

\* Math.round: the largest integer not above x + 1/2
MathRound(x) == (2 * x.num + x.den) \div (2 * x.den)

\* Array.prototype.sort with a comparator: a stable sort, Before(a, b) being
\* comparator(a, b) < 0
SortBy(seq, Before(_, _)) ==
  LET n == Len(seq)
      Rank(i) == Cardinality({j \in 1..n : \/ Before(seq[j], seq[i])
                                           \/ (~Before(seq[i], seq[j]) /\ j < i)}) + 1
  IN  [r \in 1..n |-> seq[CHOOSE i \in 1..n : Rank(i) = r]]

\* the default of the hashBits parameter of distanceToSimilarity
DefaultHashBits == 64

\* 1 - distance / hashBits
distanceToSimilarity(distance, hashBits) == Rat(hashBits - distance, hashBits)

\* mutant of similarityToDistance: the similarity itself is scaled
similarityToDistanceOfSimilarity(similarity, hashBits) ==
  MathRound(RatMul(similarity, Rat(hashBits, 1)))

\* Math.round((1 - similarity) * hashBits)
similarityToDistance(similarity, hashBits) ==
  MathRound(RatMul(RatSub(Rat(1, 1), similarity), Rat(hashBits, 1)))

(***************************************************************************)
(* search/similarity-engine: SimilarityEngine.  bkTrees is a function from  *)
(* the algorithms that have a tree; the store maps the ids of the saved     *)
(* media entries to their records; a weights object is the sequence of its  *)
(* [algo, weight] entries in key order, given = FALSE standing for          *)
(* undefined.                                                               *)
(***************************************************************************)
\* distances[algo]: the observed distance, or -1 for undefined
DistanceOf(distances, algo) ==
  IF \E i \in 1..Len(distances) : distances[i].algo = algo
  THEN distances[CHOOSE i \in 1..Len(distances) : distances[i].algo = algo].distance
  ELSE -1

\* the loop of calculateWeightedScore over Object.entries(weights):
\* [totalScore, totalWeight] after the entries from position i on
RECURSIVE WeightedTotals(_, _, _, _)
WeightedTotals(distances, entries, i, totals) ==
  IF i > Len(entries) THEN totals
  ELSE LET weight == entries[i].weight
           distance == DistanceOf(distances, entries[i].algo)
       IN  IF weight.num # 0 /\ distance # -1
           THEN WeightedTotals(distances, entries, i + 1,
                  [totalScore |-> RatAdd(totals.totalScore,
                                         RatMul(distanceToSimilarity(distance, DefaultHashBits),
                                                weight)),
                   totalWeight |-> RatAdd(totals.totalWeight, weight)])
           ELSE WeightedTotals(distances, entries, i + 1, totals)

calculateWeightedScore(distances, weights) ==
  IF ~weights.given
  THEN IF Len(distances) > 0
       THEN distanceToSimilarity(distances[1].distance, DefaultHashBits)
       ELSE Rat(0, 1)
  ELSE LET totals == WeightedTotals(distances, weights.entries, 1,
                                    [totalScore |-> Rat(0, 1), totalWeight |-> Rat(0, 1)])
       IN  IF totals.totalWeight.num > 0
           THEN RatDiv(totals.totalScore, totals.totalWeight)
           ELSE Rat(0, 1)

\* the distances object of one candidate: the primary algorithm with the
\* distance of the tree search, then every other algorithm of weights whose
\* fingerprint both the query and the entry have
CandidateDistances(candidate, entry, queryHashes, hashAlgorithm, weights) ==
  LET others == SelectSeq(weights.entries,
                          LAMBDA w : /\ w.algo # hashAlgorithm
                                     /\ queryHashes[w.algo] # NoHash
                                     /\ entry.hashes[w.algo] # NoHash)
  IN  <<[algo |-> hashAlgorithm, distance |-> candidate.distance]>>
      \o [i \in 1..Len(others) |->
            [algo |-> others[i].algo,
             distance |-> Distance(queryHashes[others[i].algo], entry.hashes[others[i].algo])]]

ScoredCandidate(candidate, entry, queryHashes, hashAlgorithm, weights) ==
  LET distances == CandidateDistances(candidate, entry, queryHashes, hashAlgorithm, weights)
  IN  [mediaId |-> candidate.mediaId,
       distances |-> distances,
       entry |-> entry,
       primaryDistance |-> candidate.distance,
       weightedScore |-> calculateWeightedScore(distances, weights),
       similarity |-> distanceToSimilarity(candidate.distance, DefaultHashBits)]

\* the scoredResults array: one element per candidate that has an entry
ScoredResults(candidates, store, queryHashes, hashAlgorithm, weights) ==
  LET found == SelectSeq(candidates, LAMBDA c : c.mediaId \in DOMAIN store)
  IN  [i \in 1..Len(found) |->
         ScoredCandidate(found[i], store[found[i].mediaId], queryHashes, hashAlgorithm, weights)]

\* mutant of SortScored: the scored results are left in candidate order
SortScoredUnsorted(scoredResults, weights) == scoredResults

SortScored(scoredResults, weights) ==
  IF weights.given
  THEN SortBy(scoredResults, LAMBDA a, b : RatLess(b.weightedScore, a.weightedScore))
  ELSE SortBy(scoredResults, LAMBDA a, b : a.primaryDistance < b.primaryDistance)

\* mutant of Slice: the last limit elements are kept
SliceFromEnd(seq, limit) ==
  SubSeq(seq, IF limit < Len(seq) THEN Len(seq) - limit + 1 ELSE 1, Len(seq))

\* scoredResults.slice(0, limit), limit >= 0
Slice(seq, limit) == SubSeq(seq, 1, IF limit < Len(seq) THEN limit ELSE Len(seq))

\* the SearchResult objects; metadata is carried through unread and left out
ToSearchResults(scored, hashAlgorithm) ==
  [i \in 1..Len(scored) |->
     [mediaId |-> scored[i].mediaId,
      distance |-> scored[i].primaryDistance,
      similarity |-> scored[i].similarity,
      matchedHash |-> hashAlgorithm,
      weightedScore |-> scored[i].weightedScore,
      hashes |-> scored[i].entry.hashes]]

\* mutant of engineSearch: the tree is looked at before the primary fingerprint
engineSearchTreeFirst(trees, store, storageUp, queryHashes, options) ==
  IF options.hashAlgorithm \notin DOMAIN trees
  THEN [outcome |-> "ok", results |-> <<>>, calls |-> <<>>]
  ELSE IF isEmpty(trees[options.hashAlgorithm])
  THEN [outcome |-> "ok", results |-> <<>>, calls |-> <<>>]
  ELSE IF queryHashes[options.hashAlgorithm] = NoHash
  THEN [outcome |-> "error", results |-> <<>>, calls |-> <<>>]
  ELSE LET candidates == search(trees[options.hashAlgorithm],
                                queryHashes[options.hashAlgorithm], options.threshold)
       IN  IF Len(candidates) = 0
           THEN [outcome |-> "ok", results |-> <<>>, calls |-> <<>>]
           ELSE IF ~storageUp
           THEN [outcome |-> "storageError", results |-> <<>>, calls |-> <<"getMediaBatch">>]
           ELSE [outcome |-> "ok",
                 results |-> ToSearchResults(
                               Slice(SortScored(ScoredResults(candidates, store, queryHashes,
                                                              options.hashAlgorithm,
                                                              options.weights),
                                                options.weights),
                                     options.limit),
                               options.hashAlgorithm),
                 calls |-> <<"getMediaBatch">>]

\* SimilarityEngine.search: outcome "ok" with the results or "error" for a
\* throw, and the storage calls made; storageUp tells whether the adapter is
\* connected (a disconnected adapter throws on every call)
engineSearch(trees, store, storageUp, queryHashes, options) ==
  IF queryHashes[options.hashAlgorithm] = NoHash
  THEN [outcome |-> "error", results |-> <<>>, calls |-> <<>>]
  ELSE IF options.hashAlgorithm \notin DOMAIN trees
  THEN [outcome |-> "ok", results |-> <<>>, calls |-> <<>>]
  ELSE IF isEmpty(trees[options.hashAlgorithm])
  THEN [outcome |-> "ok", results |-> <<>>, calls |-> <<>>]
  ELSE LET candidates == search(trees[options.hashAlgorithm],
                                queryHashes[options.hashAlgorithm], options.threshold)
       IN  IF Len(candidates) = 0
           THEN [outcome |-> "ok", results |-> <<>>, calls |-> <<>>]
           ELSE IF ~storageUp
           THEN [outcome |-> "storageError", results |-> <<>>, calls |-> <<"getMediaBatch">>]
           ELSE [outcome |-> "ok",
                 results |-> ToSearchResults(
                               Slice(SortScored(ScoredResults(candidates, store, queryHashes,
                                                              options.hashAlgorithm,
                                                              options.weights),
                                                options.weights),
                                     options.limit),
                               options.hashAlgorithm),
                 calls |-> <<"getMediaBatch">>]

\* Map.set(key, value) on a Map held as a function
MapSet(map, key, value) == [k \in DOMAIN map \cup {key} |-> IF k = key THEN value ELSE map[k]]

MapDelete(map, key) == [k \in DOMAIN map \ {key} |-> map[k]]

\* initialize: every algorithm gets the persisted tree, or a new one
RECURSIVE initialize(_, _, _)
initialize(trees, data, algorithms) ==
  IF algorithms = <<>> THEN trees
  ELSE initialize(MapSet(trees, Head(algorithms),
                         IF Head(algorithms) \in DOMAIN data
                         THEN deserialize(data[Head(algorithms)])
                         ELSE EmptyTree),
                  data, Tail(algorithms))

RECURSIVE addToTrees(_, _, _, _)
addToTrees(trees, mediaId, hashes, algorithms) ==
  IF algorithms = <<>> THEN trees
  ELSE addToTrees(IF hashes[Head(algorithms)] # NoHash /\ Head(algorithms) \in DOMAIN trees
                  THEN [trees EXCEPT ![Head(algorithms)] =
                          insert(@, hashes[Head(algorithms)], mediaId)]
                  ELSE trees,
                  mediaId, hashes, Tail(algorithms))

RECURSIVE removeFromTrees(_, _, _)
removeFromTrees(trees, mediaId, algorithms) ==
  IF algorithms = <<>> THEN trees
  ELSE removeFromTrees(IF Head(algorithms) \in DOMAIN trees
                       THEN [trees EXCEPT ![Head(algorithms)] = remove(@, mediaId).tree]
                       ELSE trees,
                       mediaId, Tail(algorithms))

\* persistTrees: the persisted tree data after the saveBKTreeData calls
RECURSIVE persistTrees(_, _, _)
persistTrees(trees, data, algorithms) ==
  IF algorithms = <<>> THEN data
  ELSE persistTrees(trees,
                    IF Head(algorithms) \in DOMAIN trees
                    THEN MapSet(data, Head(algorithms), serialize(trees[Head(algorithms)]))
                    ELSE data,
                    Tail(algorithms))

\* the storage calls of persistTrees
PersistCalls(trees, algorithms) ==
  [i \in 1..Len(SelectSeq(algorithms, LAMBDA a : a \in DOMAIN trees)) |-> "saveBKTreeData"]

\* the second loop of rebuildTrees: entries is what getAllMediaEntries yields
RECURSIVE AddEntriesToTrees(_, _, _)
AddEntriesToTrees(trees, entries, algorithms) ==
  IF entries = <<>> THEN trees
  ELSE AddEntriesToTrees(addToTrees(trees, Head(entries).id, Head(entries).hashes, algorithms),
                         Tail(entries), algorithms)

\* mutant of rebuildTrees: the existing trees are not replaced by new ones
rebuildTreesKeepsNodes(trees, entries, algorithms) ==
  AddEntriesToTrees([a \in DOMAIN trees \cup Range(algorithms) |->
                       IF a \in DOMAIN trees THEN trees[a] ELSE EmptyTree],
                    entries, algorithms)

\* rebuildTrees up to the persist: new trees filled from the entries
rebuildTrees(trees, entries, algorithms) ==
  AddEntriesToTrees([a \in DOMAIN trees \cup Range(algorithms) |->
                       IF a \in Range(algorithms) THEN EmptyTree ELSE trees[a]],
                    entries, algorithms)

(***************************************************************************)
(* State.  Of the tree specification: tree is the BKTree under test and    *)
(* lastOp the last call with its returned value; stored is a history       *)
(* variable: the bag of (hash, mediaId) pairs inserted and not removed.    *)
(* Of the session specifications: hashSize is config.hashSize, connected   *)
(* the flag of MediaTwin, storageUp the flag of the storage adapter,       *)
(* bkTrees the Map of the engine, media and treeData the contents of the   *)
(* store (media entries by id, persisted tree data by algorithm), and call *)
(* the last call of a MediaTwin method with its outcome, the storage calls *)
(* it made, whether it hashed its input, and a summary of its value.       *)
(* Of the specification of concurrent adds: tasks holds the add() calls    *)
(* that are running, each at its await, and pending the commands the       *)
(* storage client has sent and the store has not served yet.               *)
(* Of the specification of the hash utilities: hamming holds the arguments *)
(* and the locals xor and distance of the running hammingDistance call,    *)
(* conversion the last distance/similarity conversion.                     *)
(***************************************************************************)
VARIABLES tree, lastOp, stored, hashSize, connected, storageUp, bkTrees, media, treeData, call,
          tasks, pending, hamming, conversion

vars == <<tree, lastOp, stored, hashSize, connected, storageUp, bkTrees, media, treeData, call,
          tasks, pending, hamming, conversion>>

utilVars == <<hamming, conversion>>

treeVars == <<tree, lastOp, stored>>

taskVars == <<tasks, pending>>

sessionVars == <<hashSize, connected, storageUp, bkTrees, media, treeData, call>>

EmptyMap == [k \in {} |-> 0]

Call(name, outcome, calls, hashed, value) ==
  [name |-> name, outcome |-> outcome, calls |-> calls, hashed |-> hashed, value |-> value]

NewBKTree ==
  /\ tree = EmptyTree
  /\ lastOp = [name |-> "new"]
  /\ stored = EmptyBag

\* new MediaTwin(config) on an empty store
NewMediaTwin(bits) ==
  /\ hashSize = bits
  /\ connected = FALSE
  /\ storageUp = FALSE
  /\ bkTrees = EmptyMap
  /\ media = EmptyMap
  /\ treeData = EmptyMap
  /\ call = Call("new", "ok", <<>>, FALSE, 0)
  /\ tasks = EmptyMap
  /\ pending = <<>>

\* config.hashSize || 64
DefaultHashSize == 64

\* no utility call has been made
UtilsIdle ==
  /\ hamming = [pc |-> "idle", hash1 |-> NoHash, hash2 |-> NoHash, xor |-> <<>>, distance |-> 0]
  /\ conversion = [distance |-> 0, hashBits |-> DefaultHashBits,
                   similarity |-> distanceToSimilarity(0, DefaultHashBits), back |-> 0]

Init == NewBKTree /\ NewMediaTwin(DefaultHashSize) /\ UtilsIdle

\* media ids are opaque strings that are only compared for equality, so an
\* insert names an id already stored or the first id not stored yet
DistinguishableIds ==
  LET used == {p.mediaId : p \in DOMAIN stored}
      unused == {i \in 1..MaxId : IdNames[i] \notin used}
  IN  used \cup {IdNames[i] : i \in {j \in unused : \A k \in unused : j <= k}}

Insert(hash, mediaId) ==
  /\ size(tree) < MaxNodes
  /\ mediaId \in DistinguishableIds
  /\ tree' = insert(tree, hash, mediaId)
  /\ lastOp' = [name |-> "insert"]
  /\ stored' = BagAdd(stored, [hash |-> hash, mediaId |-> mediaId])
  /\ UNCHANGED <<sessionVars, taskVars, utilVars>>

Remove(mediaId) ==
  /\ mediaId \in DistinguishableIds
  /\ \E r \in {remove(tree, mediaId)} :
       /\ tree' = r.tree
       /\ lastOp' = [name |-> "remove", mediaId |-> mediaId, ret |-> r.ret]
  /\ stored' = BagFilter(stored, LAMBDA p : p.mediaId # mediaId)
  /\ UNCHANGED <<sessionVars, taskVars, utilVars>>

\* persist and load again: tree := BKTree.deserialize(tree.serialize())
SerializeDeserialize ==
  /\ tree' = deserialize(serialize(tree))
  /\ lastOp' = [name |-> "roundtrip"]
  /\ UNCHANGED <<stored, sessionVars, taskVars, utilVars>>

\* search, size and isEmpty read the tree and change nothing: they are the
\* operators above, and the properties below apply search to every query
\* and threshold in every reachable state
Next ==
  \/ \E hash \in Hashes, mediaId \in MediaIds : Insert(hash, mediaId)
  \/ \E mediaId \in MediaIds : Remove(mediaId)
  \/ SerializeDeserialize

Spec == Init /\ [][Next]_vars

(***************************************************************************)
(* The tree with its static factory: a tree is made by new BKTree() or by  *)
(* BKTree.fromEntries(entries), and then used as above.                    *)
(***************************************************************************)
fromEntries(entries) == InsertAll(EmptyTree, entries)

\* the bag of the elements of a sequence
RECURSIVE BagOfSeq(_)
BagOfSeq(seq) == IF seq = <<>> THEN EmptyBag ELSE BagAdd(BagOfSeq(Tail(seq)), Head(seq))

\* the arrays of at most MaxNodes entries
EntryLists ==
  UNION {[1..n -> [hash : Hashes, mediaId : MediaIds]] : n \in 0..MaxNodes}

\* tree := BKTree.fromEntries(entries), in place of new BKTree()
FromEntries(entries) ==
  /\ lastOp.name = "new"
  /\ tree' = fromEntries(entries)
  /\ lastOp' = [name |-> "fromEntries"]
  /\ stored' = BagOfSeq(entries)
  /\ UNCHANGED <<sessionVars, taskVars, utilVars>>

NextEntries ==
  \/ lastOp.name = "new" /\ \E entries \in EntryLists : FromEntries(entries)
  \/ \E hash \in Hashes, mediaId \in MediaIds : Insert(hash, mediaId)
  \/ \E mediaId \in MediaIds : Remove(mediaId)
  \/ SerializeDeserialize

SpecEntries == Init /\ [][NextEntries]_vars

(***************************************************************************)
(* MediaTwin: the session.  Every method is one action; its inputs are     *)
(* what the caller passes and what the collaborators outside the model     *)
(* (decoding, hashing, the store's availability at connect) produce.       *)
(***************************************************************************)
AlgoSet == Range(Algorithms)

\* the fingerprint sets the hashers compute for the media that are added: a
\* hasher that throws leaves its algorithm out
EntryFingerprintSets(bits) ==
  LET zero == ZeroHash(bits)
      ones == OnesHash(bits)
  IN  {[phash |-> zero, dhash |-> zero], [phash |-> ones, dhash |-> zero],
       [phash |-> zero, dhash |-> NoHash], [phash |-> NoHash, dhash |-> zero]}

\* the fingerprint sets of the media the session calls are made with: both
\* hashers succeed, one of them throws, or both throw
SessionFingerprintSets(bits) ==
  LET zero == ZeroHash(bits)
  IN  {[phash |-> zero, dhash |-> zero], [phash |-> NoHash, dhash |-> zero],
       [phash |-> NoHash, dhash |-> NoHash]}

\* the fingerprint sets computed for a query
QueryFingerprintSets(bits) == [AlgoSet -> EngineHashes(bits) \cup {NoHash}]

\* weights objects: undefined, {}, and objects that weigh both algorithms,
\* one of them with 0, or one algorithm only
WeightOptions ==
  {[given |-> FALSE, entries |-> <<>>],
   [given |-> TRUE, entries |-> <<>>],
   [given |-> TRUE, entries |-> <<[algo |-> "phash", weight |-> Rat(1, 1)],
                                  [algo |-> "dhash", weight |-> Rat(1, 2)]>>],
   [given |-> TRUE, entries |-> <<[algo |-> "phash", weight |-> Rat(0, 1)],
                                  [algo |-> "dhash", weight |-> Rat(1, 1)]>>],
   [given |-> TRUE, entries |-> <<[algo |-> "dhash", weight |-> Rat(1, 2)]>>]}

\* input.limit || 100
DefaultLimit == 100

\* the thresholds of the model: exact match and the whole width
SearchThresholds(bits) == {0, bits}

\* the options SimilarityEngine.search is called with
SearchOptions(bits) ==
  [hashAlgorithm : AlgoSet, threshold : SearchThresholds(bits),
   weights : WeightOptions, limit : {1, DefaultLimit}]

\* the ids a call can tell apart: those in the store or in a tree, and the
\* first one that is in neither
KnownIds ==
  DOMAIN media \cup UNION {{bkTrees[a].nodes[i].mediaId : i \in 1..Len(bkTrees[a].nodes)} :
                             a \in DOMAIN bkTrees}

SessionIds ==
  LET unused == {i \in 1..MaxId : IdNames[i] \notin KnownIds}
  IN  (KnownIds \cap MediaIds) \cup {IdNames[i] : i \in {j \in unused : \A k \in unused : j <= k}}

\* mutant of ensureConnected: the check is missing
ensureConnectedMissing(isConnected) == TRUE

\* ensureConnected: TRUE when it returns, FALSE when it throws
ensureConnected(isConnected) == isConnected

\* a method whose ensureConnected throws
NotConnected(name) ==
  /\ call' = Call(name, "notConnected", <<>>, FALSE, 0)
  /\ UNCHANGED <<hashSize, connected, storageUp, bkTrees, media, treeData>>

\* mutant of ConnectBody: initialize starts every algorithm with a new tree
ConnectBodyNewTrees ==
  /\ storageUp' = TRUE
  /\ bkTrees' = initialize(bkTrees, EmptyMap, Algorithms)

\* the body of connect() after the connected check, when no call throws
ConnectBody ==
  /\ storageUp' = TRUE
  /\ bkTrees' = initialize(bkTrees, treeData, Algorithms)

\* mutant of Connect: the connected check is missing
ConnectReloads(failAt) ==
  /\ IF failAt = 0
     THEN /\ call' = Call("connect", "storageError", <<"connect">>, FALSE, 0)
          /\ UNCHANGED <<connected, storageUp, bkTrees>>
     ELSE IF failAt <= Len(Algorithms)
     THEN /\ storageUp' = TRUE
          /\ bkTrees' = initialize(bkTrees, treeData, SubSeq(Algorithms, 1, failAt - 1))
          /\ call' = Call("connect", "storageError",
                          <<"connect">> \o [i \in 1..failAt |-> "loadBKTreeData"], FALSE, 0)
          /\ UNCHANGED connected
     ELSE /\ ConnectBody
          /\ connected' = TRUE
          /\ call' = Call("connect", "ok",
                          <<"connect">> \o [i \in 1..Len(Algorithms) |-> "loadBKTreeData"],
                          FALSE, 0)
  /\ UNCHANGED <<hashSize, media, treeData, treeVars, taskVars, utilVars>>

\* connect(): storage.connect() or a loadBKTreeData of initialize may throw;
\* failAt = 0 is a failing storage.connect(), failAt = k a failing load of
\* the k-th algorithm, failAt > Len(Algorithms) no failure
Connect(failAt) ==
  /\ IF connected
     THEN /\ call' = Call("connect", "ok", <<>>, FALSE, 0)
          /\ UNCHANGED <<connected, storageUp, bkTrees>>
     ELSE IF failAt = 0
     THEN /\ call' = Call("connect", "storageError", <<"connect">>, FALSE, 0)
          /\ UNCHANGED <<connected, storageUp, bkTrees>>
     ELSE IF failAt <= Len(Algorithms)
     THEN /\ storageUp' = TRUE
          /\ bkTrees' = initialize(bkTrees, treeData, SubSeq(Algorithms, 1, failAt - 1))
          /\ call' = Call("connect", "storageError",
                          <<"connect">> \o [i \in 1..failAt |-> "loadBKTreeData"], FALSE, 0)
          /\ UNCHANGED connected
     ELSE /\ ConnectBody
          /\ connected' = TRUE
          /\ call' = Call("connect", "ok",
                          <<"connect">> \o [i \in 1..Len(Algorithms) |-> "loadBKTreeData"],
                          FALSE, 0)
  /\ UNCHANGED <<hashSize, media, treeData, treeVars, taskVars, utilVars>>

\* the body of disconnect() after the connected check
DisconnectBody ==
  /\ treeData' = persistTrees(bkTrees, treeData, Algorithms)
  /\ storageUp' = FALSE

Disconnect ==
  /\ IF ~connected
     THEN /\ call' = Call("disconnect", "ok", <<>>, FALSE, 0)
          /\ UNCHANGED <<connected, storageUp, treeData>>
     ELSE /\ DisconnectBody
          /\ connected' = FALSE
          /\ call' = Call("disconnect", "ok",
                          PersistCalls(bkTrees, Algorithms) \o <<"disconnect">>, FALSE, 0)
  /\ UNCHANGED <<hashSize, bkTrees, media, treeVars, taskVars, utilVars>>

\* the trees have room for n more entries of a model bounded by max
HasRoom(n, max) == \A a \in DOMAIN bkTrees : size(bkTrees[a]) + n <= max

\* mutant of AddBody: the nodes the trees hold for the id are removed first
AddBodyReconciles(mediaId, hashes) ==
  /\ media' = MapSet(media, mediaId, [id |-> mediaId, hashes |-> hashes])
  /\ bkTrees' = addToTrees(removeFromTrees(bkTrees, mediaId, Algorithms),
                           mediaId, hashes, Algorithms)
  /\ treeData' = persistTrees(bkTrees', treeData, Algorithms)

\* the body of add(input) from saveMedia on
AddBody(mediaId, hashes) ==
  /\ media' = MapSet(media, mediaId, [id |-> mediaId, hashes |-> hashes])
  /\ bkTrees' = addToTrees(bkTrees, mediaId, hashes, Algorithms)
  /\ treeData' = persistTrees(bkTrees', treeData, Algorithms)

\* add(input): valid is whether validateMediaInput accepts the input, hashes
\* what computeImageHashes returns for its source
Add(mediaId, hashes, valid) ==
  /\ UNCHANGED <<treeVars, taskVars, utilVars>>
  /\ IF ~ensureConnected(connected) THEN NotConnected("add")
     ELSE IF ~valid
     THEN /\ call' = Call("add", "validationError", <<>>, FALSE, 0)
          /\ UNCHANGED <<hashSize, connected, storageUp, bkTrees, media, treeData>>
     ELSE /\ AddBody(mediaId, hashes)
          /\ call' = Call("add", "ok",
                          <<"saveMedia">> \o PersistCalls(bkTrees', Algorithms), TRUE, 1)
          /\ UNCHANGED <<hashSize, connected, storageUp>>

\* the body of remove(mediaId) after ensureConnected
RemoveBody(mediaId) ==
  /\ bkTrees' = removeFromTrees(bkTrees, mediaId, Algorithms)
  /\ media' = MapDelete(media, mediaId)
  /\ treeData' = IF mediaId \in DOMAIN media
                 THEN persistTrees(bkTrees', treeData, Algorithms)
                 ELSE treeData

\* remove(mediaId)
RemoveMedia(mediaId) ==
  /\ UNCHANGED <<treeVars, taskVars, utilVars>>
  /\ IF ~ensureConnected(connected) THEN NotConnected("remove")
     ELSE /\ RemoveBody(mediaId)
          /\ call' = IF mediaId \in DOMAIN media
                     THEN Call("remove", "ok",
                               <<"deleteMedia">> \o PersistCalls(bkTrees', Algorithms), FALSE, 1)
                     ELSE Call("remove", "ok", <<"deleteMedia">>, FALSE, 0)
          /\ UNCHANGED <<hashSize, connected, storageUp>>

\* the value of an absent optional field of an input
Undefined == "undefined"

\* the largest threshold validateSearchInput accepts
MaxValidThreshold == 64

\* validateSearchInput: TRUE when it returns, FALSE when it throws; weights
\* and limit of the model's inputs are always acceptable
validateSearchInput(input) == ~(input.threshold < 0 \/ input.threshold > MaxValidThreshold)

\* the inputs of search: the fingerprints computed for the source, and the
\* fields of the input
SearchInputs(bits) ==
  [hashes : SessionFingerprintSets(bits), threshold : SearchThresholds(bits),
   hashAlgorithm : {Undefined, Algorithms[Len(Algorithms)]},
   weights : {w \in WeightOptions : w.given => Len(w.entries) = 1},
   limit : {[given |-> FALSE, value |-> 0], [given |-> TRUE, value |-> 1]}]

\* search(input)
SearchMedia(input) ==
  /\ UNCHANGED <<treeVars, taskVars, utilVars, hashSize, connected, storageUp, bkTrees, media, treeData>>
  /\ IF ~ensureConnected(connected) THEN call' = Call("search", "notConnected", <<>>, FALSE, 0)
     ELSE IF ~validateSearchInput(input)
     THEN call' = Call("search", "validationError", <<>>, FALSE, 0)
     ELSE \E r \in {engineSearch(bkTrees, media, storageUp, input.hashes,
                                 [hashAlgorithm |-> IF input.hashAlgorithm = Undefined
                                                    THEN Algorithms[1]
                                                    ELSE input.hashAlgorithm,
                                  threshold |-> input.threshold,
                                  weights |-> input.weights,
                                  limit |-> IF input.limit.given THEN input.limit.value
                                            ELSE DefaultLimit])} :
            call' = Call("search", r.outcome, r.calls, TRUE, Len(r.results))

\* get(mediaId)
Get(mediaId) ==
  /\ UNCHANGED <<treeVars, taskVars, utilVars, hashSize, connected, storageUp, bkTrees, media, treeData>>
  /\ IF ~ensureConnected(connected) THEN call' = Call("get", "notConnected", <<>>, FALSE, 0)
     ELSE call' = Call("get", "ok", <<"getMedia">>, FALSE,
                       IF mediaId \in DOMAIN media THEN 1 ELSE 0)

\* exists(mediaId)
Exists(mediaId) ==
  /\ UNCHANGED <<treeVars, taskVars, utilVars, hashSize, connected, storageUp, bkTrees, media, treeData>>
  /\ IF ~ensureConnected(connected) THEN call' = Call("exists", "notConnected", <<>>, FALSE, 0)
     ELSE call' = Call("exists", "ok", <<"mediaExists">>, FALSE,
                       IF mediaId \in DOMAIN media THEN 1 ELSE 0)

\* getStats()
GetStats ==
  /\ UNCHANGED <<treeVars, taskVars, utilVars, hashSize, connected, storageUp, bkTrees, media, treeData>>
  /\ IF ~ensureConnected(connected) THEN call' = Call("getStats", "notConnected", <<>>, FALSE, 0)
     ELSE call' = Call("getStats", "ok", <<"getStats">>, FALSE, Cardinality(DOMAIN media))

\* the orders in which the elements of a set can be enumerated
Orders(S) == {o \in [1..Cardinality(S) -> S] : \A i, j \in 1..Cardinality(S) : o[i] = o[j] => i = j}

\* the body of rebuildIndex() after ensureConnected: order is the order in
\* which the scan of getAllMediaEntries yields the ids of the stored entries
RebuildBody(order) ==
  /\ bkTrees' = rebuildTrees(bkTrees, [i \in 1..Len(order) |-> media[order[i]]], Algorithms)
  /\ treeData' = persistTrees(bkTrees', treeData, Algorithms)

\* rebuildIndex()
RebuildIndex(order) ==
  /\ UNCHANGED <<treeVars, taskVars, utilVars>>
  /\ IF ~ensureConnected(connected) THEN NotConnected("rebuildIndex")
     ELSE /\ RebuildBody(order)
          /\ call' = Call("rebuildIndex", "ok",
                          <<"getAllMediaEntries">> \o PersistCalls(bkTrees', Algorithms),
                          FALSE, 0)
          /\ UNCHANGED <<hashSize, connected, storageUp, media>>

(***************************************************************************)
(* The same methods when a storage call throws.  failAt counts the storage *)
(* calls of the method from 1: the calls before it are applied, the call   *)
(* at failAt throws, and with no try/catch on the way the method rejects   *)
(* with that error; nothing after the throwing call runs.                  *)
(***************************************************************************)

\* mutant of AddStorageFailure: addToTrees runs before saveMedia
AddStorageFailureTreesFirst(mediaId, hashes, failAt) ==
  /\ connected
  /\ UNCHANGED <<treeVars, taskVars, utilVars, hashSize, connected, storageUp>>
  /\ bkTrees' = addToTrees(bkTrees, mediaId, hashes, Algorithms)
  /\ IF failAt = 1
     THEN /\ call' = Call("add", "storageError", <<"saveMedia">>, TRUE, mediaId)
          /\ UNCHANGED <<media, treeData>>
     ELSE /\ media' = MapSet(media, mediaId, [id |-> mediaId, hashes |-> hashes])
          /\ treeData' = persistTrees(bkTrees', treeData, SubSeq(Algorithms, 1, failAt - 2))
          /\ call' = Call("add", "storageError",
                          <<"saveMedia">>
                            \o PersistCalls(bkTrees', SubSeq(Algorithms, 1, failAt - 1)),
                          TRUE, mediaId)

\* add(input) with a valid input: saveMedia is call 1, the saveBKTreeData of
\* the k-th algorithm call 1 + k; addToTrees runs between them
AddStorageFailure(mediaId, hashes, failAt) ==
  /\ connected
  /\ UNCHANGED <<treeVars, taskVars, utilVars, hashSize, connected, storageUp>>
  /\ IF failAt = 1
     THEN /\ call' = Call("add", "storageError", <<"saveMedia">>, TRUE, mediaId)
          /\ UNCHANGED <<media, bkTrees, treeData>>
     ELSE /\ media' = MapSet(media, mediaId, [id |-> mediaId, hashes |-> hashes])
          /\ bkTrees' = addToTrees(bkTrees, mediaId, hashes, Algorithms)
          /\ treeData' = persistTrees(bkTrees', treeData, SubSeq(Algorithms, 1, failAt - 2))
          /\ call' = Call("add", "storageError",
                          <<"saveMedia">>
                            \o PersistCalls(bkTrees', SubSeq(Algorithms, 1, failAt - 1)),
                          TRUE, mediaId)

\* remove(mediaId): removeFromTrees runs first, deleteMedia is call 1, and
\* when it deleted a record the saveBKTreeData of the k-th algorithm is
\* call 1 + k
RemoveStorageFailure(mediaId, failAt) ==
  /\ connected
  /\ failAt > 1 => mediaId \in DOMAIN media
  /\ UNCHANGED <<treeVars, taskVars, utilVars, hashSize, connected, storageUp>>
  /\ bkTrees' = removeFromTrees(bkTrees, mediaId, Algorithms)
  /\ IF failAt = 1
     THEN /\ call' = Call("remove", "storageError", <<"deleteMedia">>, FALSE, mediaId)
          /\ UNCHANGED <<media, treeData>>
     ELSE /\ media' = MapDelete(media, mediaId)
          /\ treeData' = persistTrees(bkTrees', treeData, SubSeq(Algorithms, 1, failAt - 2))
          /\ call' = Call("remove", "storageError",
                          <<"deleteMedia">>
                            \o PersistCalls(bkTrees', SubSeq(Algorithms, 1, failAt - 1)),
                          FALSE, mediaId)

\* rebuildIndex(): with failAt = 0 the scan of getAllMediaEntries throws after
\* it yielded the first scanned entries; otherwise the scan yields every
\* entry and the saveBKTreeData of the failAt-th algorithm throws
RebuildStorageFailure(order, scanned, failAt) ==
  /\ connected
  /\ failAt > 0 => scanned = Len(order)
  /\ UNCHANGED <<treeVars, taskVars, utilVars, hashSize, connected, storageUp, media>>
  /\ bkTrees' = rebuildTrees(bkTrees, [i \in 1..scanned |-> media[order[i]]], Algorithms)
  /\ treeData' = persistTrees(bkTrees', treeData, SubSeq(Algorithms, 1, failAt - 1))
  /\ call' = Call("rebuildIndex", "storageError",
                  <<"getAllMediaEntries">>
                    \o PersistCalls(bkTrees', SubSeq(Algorithms, 1, failAt)),
                  FALSE, 0)

\* disconnect(): the saveBKTreeData of the k-th algorithm is call k, and
\* storage.disconnect() the call after the last of them; connected stays set
DisconnectStorageFailure(failAt) ==
  /\ connected
  /\ UNCHANGED <<treeVars, taskVars, utilVars, hashSize, connected, storageUp, media, bkTrees>>
  /\ treeData' = persistTrees(bkTrees, treeData, SubSeq(Algorithms, 1, failAt - 1))
  /\ call' = Call("disconnect", "storageError",
                  IF failAt <= Len(Algorithms)
                  THEN PersistCalls(bkTrees, SubSeq(Algorithms, 1, failAt))
                  ELSE PersistCalls(bkTrees, Algorithms) \o <<"disconnect">>,
                  FALSE, 0)

\* options.concurrency || 5
DefaultConcurrency == 5

\* the inputs of a batch: valid ones with their id and computed fingerprints,
\* and one that validateMediaInput rejects
BatchInputs(bits) ==
  {[mediaId |-> id, hashes |-> [a \in AlgoSet |-> ZeroHash(bits)],
    valid |-> TRUE] : id \in MediaIds}
    \cup {[mediaId |-> IdNames[1], hashes |-> [a \in AlgoSet |-> NoHash], valid |-> FALSE]}

\* the chunk (from 0) of the input at position i
ChunkOf(i, concurrency) == (i - 1) \div concurrency

\* the adds of one chunk run concurrently and reach their saveMedia in any
\* order; a chunk starts after the chunk before it has settled
CompletionOrders(n, concurrency) ==
  {o \in Orders(1..n) : \A i, j \in 1..n : i < j => ChunkOf(o[i], concurrency) <= ChunkOf(o[j], concurrency)}

\* the positions whose add is started: all of them, or with an abort those
\* of the chunks up to the first one that holds a rejected add
StartedAdds(inputs, concurrency, continueOnError) ==
  LET failed == {i \in 1..Len(inputs) : ~inputs[i].valid}
  IN  IF continueOnError \/ failed = {} THEN 1..Len(inputs)
      ELSE {i \in 1..Len(inputs) :
              \A f \in failed : ChunkOf(i, concurrency) <= ChunkOf(f, concurrency)}

\* the store, the trees and the storage calls after the adds at the given
\* positions, made in the given order
RECURSIVE AddEach(_, _, _, _)
AddEach(st, inputs, order, run) ==
  IF order = <<>> THEN st
  ELSE LET input == inputs[Head(order)]
           trees == addToTrees(st.trees, input.mediaId, input.hashes, Algorithms)
       IN  CHOOSE after \in
             {AddEach(next, inputs, Tail(order), run) :
                next \in {IF Head(order) \in run
                          THEN [media |-> MapSet(st.media, input.mediaId,
                                                 [id |-> input.mediaId, hashes |-> input.hashes]),
                                trees |-> trees,
                                data |-> persistTrees(trees, st.data, Algorithms),
                                calls |-> st.calls \o <<"saveMedia">>
                                                   \o PersistCalls(trees, Algorithms)]
                          ELSE st}} : TRUE

\* mutant of BatchSlice: the slice runs to the end of the inputs
BatchSliceToEnd(n, i, concurrency) == [j \in 1..(n - i) |-> i + j]

\* the positions i + 1 .. min(i + concurrency, n) of inputs.slice(i, i + concurrency)
BatchSlice(n, i, concurrency) ==
  [j \in 1..((IF i + concurrency < n THEN i + concurrency ELSE n) - i) |-> i + j]

Event(type, item) == [type |-> type, item |-> item]

\* mutant of BatchThrow: the adds of the failing chunk are rolled back
BatchThrowRollsBack(b, st, log, batch, rejected) ==
  [b EXCEPT !.log = log, !.error = Head(rejected),
            !.successful = @ \o SelectSeq(batch, LAMBDA k : k < Head(rejected))]

\* throw result.reason at the first rejected result of a chunk: the loop ends
\* with what the adds of the chunk did (st) and the results pushed before
BatchThrow(b, st, log, batch, rejected) ==
  [b EXCEPT !.st = st, !.log = log, !.error = Head(rejected),
            !.successful = @ \o SelectSeq(batch, LAMBDA k : k < Head(rejected))]

\* mutant of BatchCollect: a rejected result is pushed to successful as well
BatchCollectAllSuccessful(b, st, log, inputs, i, batch, rejected) ==
  [st |-> st,
   successful |-> b.successful \o batch,
   failed |-> b.failed \o [j \in 1..Len(rejected) |->
                             [input |-> inputs[rejected[j]], error |-> rejected[j]]],
   progress |-> b.progress \o <<[completed |-> i + Len(batch), total |-> Len(inputs)]>>,
   log |-> log \o <<Event("progress", i + Len(batch))>>,
   error |-> 0]

\* the loop over the results of a chunk when nothing is thrown, and the call
\* of onProgress after it
BatchCollect(b, st, log, inputs, i, batch, rejected) ==
  [st |-> st,
   successful |-> b.successful \o SelectSeq(batch, LAMBDA k : inputs[k].valid),
   failed |-> b.failed \o [j \in 1..Len(rejected) |->
                             [input |-> inputs[rejected[j]], error |-> rejected[j]]],
   progress |-> b.progress \o <<[completed |-> i + Len(batch), total |-> Len(inputs)]>>,
   log |-> log \o <<Event("progress", i + Len(batch))>>,
   error |-> 0]

\* the loop of addBatch from position i (from 0) on.  b holds the store and
\* the trees (st), the successful and failed lists (a result is named by the
\* position of its input), the calls of onProgress, the log of the adds that
\* were started and settled, and error, the position of the input whose
\* rejection was thrown (0 for none).  The adds of a chunk are started in
\* input order and settle in the order given by order
RECURSIVE BatchLoop(_, _, _, _, _, _)
BatchLoop(b, inputs, concurrency, continueOnError, order, i) ==
  IF i >= Len(inputs) THEN b
  ELSE LET batch == BatchSlice(Len(inputs), i, concurrency)
           settled == SelectSeq(order, LAMBDA k : k \in Range(batch))
           rejected == SelectSeq(batch, LAMBDA k : ~inputs[k].valid)
           st == AddEach(b.st, inputs, settled, {k \in Range(batch) : inputs[k].valid})
           log == b.log \o [j \in 1..Len(batch) |-> Event("start", batch[j])]
                        \o [j \in 1..Len(settled) |-> Event("settle", settled[j])]
       IN  IF ~continueOnError /\ rejected # <<>>
           THEN BatchThrow(b, st, log, batch, rejected)
           ELSE CHOOSE result \in
                  {BatchLoop(next, inputs, concurrency, continueOnError, order, i + concurrency) :
                     next \in {BatchCollect(b, st, log, inputs, i, batch, rejected)}} : TRUE

\* addBatch(inputs, { concurrency, continueOnError, onProgress }): the value
\* of the call holds the inputs and options together with what the loop left
AddBatch(inputs, concurrency, continueOnError, order) ==
  /\ UNCHANGED <<treeVars, taskVars, utilVars>>
  /\ IF ~ensureConnected(connected) THEN NotConnected("addBatch")
     ELSE \E b \in {BatchLoop([st |-> [media |-> media, trees |-> bkTrees, data |-> treeData,
                                       calls |-> <<>>],
                               successful |-> <<>>, failed |-> <<>>, progress |-> <<>>,
                               log |-> <<>>, error |-> 0],
                              inputs, concurrency, continueOnError, order, 0)} :
            /\ media' = b.st.media
            /\ bkTrees' = b.st.trees
            /\ treeData' = b.st.data
            /\ call' = Call("addBatch",
                            IF b.error # 0 THEN "validationError" ELSE "ok",
                            b.st.calls,
                            \E j \in 1..Len(b.log) :
                              b.log[j].type = "start" /\ inputs[b.log[j].item].valid,
                            [inputs |-> inputs, concurrency |-> concurrency,
                             continueOnError |-> continueOnError,
                             successful |-> b.successful, failed |-> b.failed,
                             progress |-> b.progress, log |-> b.log, error |-> b.error])
            /\ UNCHANGED <<hashSize, connected, storageUp>>

\* the session: every method of MediaTwin, called in any order
NextSession ==
  \/ \E failAt \in 0..(Len(Algorithms) + 1) : Connect(failAt)
  \/ Disconnect
  \/ \E mediaId \in SessionIds, hashes \in SessionFingerprintSets(hashSize), valid \in BOOLEAN :
       HasRoom(1, MaxSessionEntries) /\ Add(mediaId, hashes, valid)
  \/ \E input \in SearchInputs(hashSize) : SearchMedia(input)
  \/ \E mediaId \in SessionIds : RemoveMedia(mediaId)
  \/ \E mediaId \in SessionIds : Get(mediaId)
  \/ \E mediaId \in SessionIds : Exists(mediaId)
  \/ \E n \in 0..MaxSessionEntries :
       \E inputs \in [1..n -> BatchInputs(hashSize)],
          concurrency \in {1, DefaultConcurrency}, continueOnError \in BOOLEAN :
         \E order \in CompletionOrders(n, concurrency) :
           HasRoom(n, MaxSessionEntries) /\ AddBatch(inputs, concurrency, continueOnError, order)
  \/ \E order \in Orders(DOMAIN media) : RebuildIndex(order)
  \/ GetStats

InitSession == NewBKTree /\ UtilsIdle /\ \E bits \in HashSizes : NewMediaTwin(bits)

SpecSession == InitSession /\ [][NextSession]_vars

(***************************************************************************)
(* The engine and the store without the session around them: the steps     *)
(* are the bodies of the MediaTwin methods that call the engine, which is  *)
(* the order of calls the engine is written for.                           *)
(***************************************************************************)
EngineStart ==
  /\ ~storageUp
  /\ ConnectBody
  /\ UNCHANGED <<hashSize, connected, media, treeData, call, treeVars, taskVars, utilVars>>

EngineStop ==
  /\ storageUp
  /\ DisconnectBody
  /\ UNCHANGED <<hashSize, connected, bkTrees, media, call, treeVars, taskVars, utilVars>>

\* the model adds a medium under an id that is not in use
EngineAdd(mediaId, hashes) ==
  /\ storageUp
  /\ mediaId \notin KnownIds
  /\ AddBody(mediaId, hashes)
  /\ UNCHANGED <<hashSize, connected, storageUp, call, treeVars, taskVars, utilVars>>

EngineRemove(mediaId) ==
  /\ storageUp
  /\ RemoveBody(mediaId)
  /\ UNCHANGED <<hashSize, connected, storageUp, call, treeVars, taskVars, utilVars>>

EngineRebuild(order) ==
  /\ storageUp
  /\ RebuildBody(order)
  /\ UNCHANGED <<hashSize, connected, storageUp, media, call, treeVars, taskVars, utilVars>>

NextEngine ==
  \/ EngineStart
  \/ EngineStop
  \/ \E mediaId \in SessionIds, hashes \in EntryFingerprintSets(hashSize) :
       EngineAdd(mediaId, hashes)
  \/ \E mediaId \in SessionIds : EngineRemove(mediaId)
  \/ \E order \in Orders(DOMAIN media) : EngineRebuild(order)

SpecEngine == InitSession /\ [][NextEngine]_vars

(***************************************************************************)
(* The index of a connected session whose store works: media are added,    *)
(* also under an id that is already in use, removed, and the index is      *)
(* rebuilt.                                                                *)
(***************************************************************************)
NextIndex ==
  \/ ~connected /\ Connect(Len(Algorithms) + 1)
  \/ connected /\ Disconnect
  \/ \E mediaId \in SessionIds, hashes \in EntryFingerprintSets(hashSize) :
       connected /\ HasRoom(1, MaxIndexEntries) /\ Add(mediaId, hashes, TRUE)
  \/ \E mediaId \in SessionIds : connected /\ RemoveMedia(mediaId)
  \/ \E order \in Orders(DOMAIN media) : connected /\ RebuildIndex(order)

SpecIndex == InitSession /\ [][NextIndex]_vars

(***************************************************************************)
(* addBatch on a connected session whose store works.  The input at        *)
(* position k carries the k-th id; validateMediaInput accepts it or not.   *)
(* The exploration runs one batch per connected session; the store keeps   *)
(* what earlier sessions added.                                            *)
(***************************************************************************)
BatchSequences(bits, n) ==
  {[k \in 1..n |-> [mediaId |-> IdNames[k],
                    hashes |-> [a \in AlgoSet |-> IF valid[k] THEN ZeroHash(bits) ELSE NoHash],
                    valid |-> valid[k]]] : valid \in [1..n -> BOOLEAN]}

NextBatch ==
  \/ ~connected /\ Connect(Len(Algorithms) + 1)
  \/ connected /\ Disconnect
  \/ /\ connected
     /\ call.name = "connect"
     /\ \E n \in 0..MaxBatch :
          /\ HasRoom(n, MaxBatch)
          /\ \E inputs \in BatchSequences(hashSize, n),
                concurrency \in {1, 2, DefaultConcurrency}, continueOnError \in BOOLEAN :
               \E order \in CompletionOrders(n, concurrency) :
                 AddBatch(inputs, concurrency, continueOnError, order)

SpecBatch == InitSession /\ [][NextBatch]_vars

(***************************************************************************)
(* add() step by step: a call runs until its next await of a storage call, *)
(* other calls run while it waits.  The adapter sends every command on its *)
(* one client, and the commands of one connection are served in the order  *)
(* in which they were sent.                                                *)
(***************************************************************************)
RemoveAt(seq, i) == [j \in 1..(Len(seq) - 1) |-> IF j < i THEN seq[j] ELSE seq[j + 1]]

\* mutant of NextServed: the command sent last is served first
NextServedNewest(queue) == Len(queue)

\* the index in the queue of the command the store serves next
NextServed(queue) == 1

Command(task, op, key, data) == [task |-> task, op |-> op, key |-> key, data |-> data]

\* add(input) up to await storage.saveMedia(entry): the hset is sent
StartAdd(t, mediaId, hashes) ==
  /\ connected
  /\ t \notin DOMAIN tasks
  /\ tasks' = MapSet(tasks, t,
                     [pc |-> "saveMedia", mediaId |-> mediaId, hashes |-> hashes,
                      replied |-> FALSE, algo |-> 0,
                      concurrent |-> \E u \in DOMAIN tasks : tasks[u].pc # "done"])
  /\ pending' = Append(pending, Command(t, "saveMedia", mediaId,
                                        [id |-> mediaId, hashes |-> hashes]))
  /\ UNCHANGED <<treeVars, sessionVars, utilVars>>

\* the store serves a command and the reply settles the promise of its task
StorageServe ==
  /\ pending # <<>>
  /\ \E cmd \in {pending[NextServed(pending)]} :
       /\ media' = IF cmd.op = "saveMedia" THEN MapSet(media, cmd.key, cmd.data) ELSE media
       /\ treeData' = IF cmd.op = "saveBKTreeData" THEN MapSet(treeData, cmd.key, cmd.data)
                      ELSE treeData
       /\ tasks' = [tasks EXCEPT ![cmd.task].replied = TRUE]
  /\ pending' = RemoveAt(pending, NextServed(pending))
  /\ UNCHANGED <<treeVars, utilVars, hashSize, connected, storageUp, bkTrees, call>>

\* add(input) from a settled await to the next one: after saveMedia,
\* addToTrees and the first iteration of persistTrees up to its await; after
\* a saveBKTreeData the next iteration, or the return of add
ResumeAdd(t) ==
  /\ t \in DOMAIN tasks
  /\ tasks[t].replied
  /\ tasks[t].pc # "done"
  /\ \E trees \in {IF tasks[t].pc = "saveMedia"
                    THEN addToTrees(bkTrees, tasks[t].mediaId, tasks[t].hashes, Algorithms)
                    ELSE bkTrees} :
       /\ bkTrees' = trees
       /\ IF tasks[t].algo < Len(Algorithms)
          THEN /\ pending' = Append(pending,
                                    Command(t, "saveBKTreeData", Algorithms[tasks[t].algo + 1],
                                            serialize(trees[Algorithms[tasks[t].algo + 1]])))
               /\ tasks' = [tasks EXCEPT ![t].pc = "persistTrees", ![t].replied = FALSE,
                                         ![t].algo = @ + 1]
               /\ UNCHANGED call
          ELSE /\ tasks' = [tasks EXCEPT ![t].pc = "done"]
               /\ call' = Call("add", "ok",
                               <<"saveMedia">> \o PersistCalls(trees, Algorithms), TRUE, 1)
               /\ UNCHANGED pending
  /\ UNCHANGED <<treeVars, utilVars, hashSize, connected, storageUp, media, treeData>>

(***************************************************************************)
(* A connected session whose storage calls may throw.                      *)
(***************************************************************************)
NextFailure ==
  \/ ~connected /\ Connect(Len(Algorithms) + 1)
  \/ connected /\ Disconnect
  \/ \E mediaId \in SessionIds, hashes \in {[a \in AlgoSet |-> ZeroHash(hashSize)]} :
       connected /\ HasRoom(1, MaxSessionEntries) /\ Add(mediaId, hashes, TRUE)
  \/ \E mediaId \in SessionIds : connected /\ RemoveMedia(mediaId)
  \/ \E order \in Orders(DOMAIN media) : connected /\ RebuildIndex(order)
  \/ \E mediaId \in SessionIds, hashes \in {[a \in AlgoSet |-> ZeroHash(hashSize)]},
        failAt \in 1..(1 + Len(Algorithms)) :
       HasRoom(1, MaxSessionEntries) /\ AddStorageFailure(mediaId, hashes, failAt)
  \/ \E mediaId \in SessionIds, failAt \in 1..(1 + Len(Algorithms)) :
       RemoveStorageFailure(mediaId, failAt)
  \/ \E order \in Orders(DOMAIN media), failAt \in 0..Len(Algorithms) :
       \E scanned \in 0..Len(order) : RebuildStorageFailure(order, scanned, failAt)
  \/ \E failAt \in 1..(Len(Algorithms) + 1) : DisconnectStorageFailure(failAt)

SpecFailure == InitSession /\ [][NextFailure]_vars

(***************************************************************************)
(* add() with each of the ways it can be rejected: by validateMediaInput,  *)
(* by a throw while the source is read and hashed, by saveMedia and by a   *)
(* saveBKTreeData of persistTrees.                                         *)
(***************************************************************************)
\* add(input) where detectMediaType, sourceToBuffer or extractAndHash throws
AddSourceFailure ==
  /\ connected
  /\ call' = Call("add", "sourceError", <<>>, TRUE, 0)
  /\ UNCHANGED <<treeVars, taskVars, utilVars, hashSize, connected, storageUp,
                 bkTrees, media, treeData>>

NextAdd ==
  \/ ~connected /\ Connect(Len(Algorithms) + 1)
  \/ connected /\ Disconnect
  \/ \E mediaId \in SessionIds, hashes \in {[a \in AlgoSet |-> ZeroHash(hashSize)]},
        valid \in BOOLEAN :
       HasRoom(1, MaxIndexEntries) /\ Add(mediaId, hashes, valid)
  \/ AddSourceFailure
  \/ \E mediaId \in SessionIds, hashes \in {[a \in AlgoSet |-> ZeroHash(hashSize)]},
        failAt \in 1..(1 + Len(Algorithms)) :
       HasRoom(1, MaxIndexEntries) /\ AddStorageFailure(mediaId, hashes, failAt)
  \/ \E mediaId \in SessionIds : connected /\ RemoveMedia(mediaId)

SpecAdd == InitSession /\ [][NextAdd]_vars

(***************************************************************************)
(* Sessions on a store that outlives the process.  The process may end at  *)
(* any time, also inside remove() between deleteMedia and persistTrees; a  *)
(* new MediaTwin is then made for the same store.  No storage call throws  *)
(* and calls do not overlap.                                               *)
(***************************************************************************)
\* the process ends and new MediaTwin(config) is made for the same store
NewProcess ==
  /\ connected' = FALSE
  /\ storageUp' = FALSE
  /\ bkTrees' = EmptyMap
  /\ call' = Call("new", "ok", <<>>, FALSE, 0)
  /\ UNCHANGED <<hashSize, treeData, treeVars, taskVars, utilVars>>

\* the process ends between two calls
Restart ==
  /\ NewProcess
  /\ UNCHANGED media

\* remove(mediaId) up to the reply of deleteMedia, where the process ends
CrashDuringRemove(mediaId) ==
  /\ connected
  /\ media' = MapDelete(media, mediaId)
  /\ NewProcess

NextRestart ==
  \/ ~connected /\ Connect(Len(Algorithms) + 1)
  \/ connected /\ Disconnect
  \/ \E mediaId \in SessionIds, hashes \in EntryFingerprintSets(hashSize) :
       connected /\ HasRoom(1, MaxIndexEntries) /\ Add(mediaId, hashes, TRUE)
  \/ \E mediaId \in SessionIds : connected /\ RemoveMedia(mediaId)
  \/ connected /\ call.name # "connect" /\ Restart
  \/ \E mediaId \in DOMAIN media : CrashDuringRemove(mediaId)

SpecRestart == InitSession /\ [][NextRestart]_vars

(***************************************************************************)
(* connect() and disconnect() called in any state of a session, also one   *)
(* whose persistTrees has thrown and left the store behind the trees.      *)
(***************************************************************************)
NextReconnect ==
  \/ \E failAt \in 0..(Len(Algorithms) + 1) : Connect(failAt)
  \/ Disconnect
  \/ \E mediaId \in SessionIds, hashes \in {[a \in AlgoSet |-> ZeroHash(hashSize)]} :
       connected /\ HasRoom(1, MaxSessionEntries) /\ Add(mediaId, hashes, TRUE)
  \/ \E mediaId \in SessionIds, hashes \in {[a \in AlgoSet |-> ZeroHash(hashSize)]},
        failAt \in 2..(1 + Len(Algorithms)) :
       HasRoom(1, MaxSessionEntries) /\ AddStorageFailure(mediaId, hashes, failAt)
  \/ \E mediaId \in SessionIds : connected /\ RemoveMedia(mediaId)
  \/ \E failAt \in 1..(Len(Algorithms) + 1) : DisconnectStorageFailure(failAt)

SpecReconnect == InitSession /\ [][NextReconnect]_vars

(***************************************************************************)
(* Concurrent add() calls on one connected session.  A call that was made  *)
(* goes on when its await settles and the store serves what it was sent,   *)
(* which the fairness condition states.  A call adds the media of the      *)
(* first call again or a media of its own.                                 *)
(***************************************************************************)
NextConcurrent ==
  \/ ~connected /\ Connect(Len(Algorithms) + 1)
  \/ \E t \in 1..MaxTasks :
       /\ 1..(t - 1) \subseteq DOMAIN tasks
       /\ \E mediaId \in {IdNames[1], IdNames[t]}, hashes \in EntryFingerprintSets(hashSize) :
            StartAdd(t, mediaId, hashes)
  \/ StorageServe
  \/ \E t \in 1..MaxTasks : ResumeAdd(t)

SpecConcurrent == InitSession /\ [][NextConcurrent]_vars /\ WF_vars(NextConcurrent)

(***************************************************************************)
(* The hash utilities.  hammingDistance runs step by step: the call binds  *)
(* xor and distance, every step is one test of the loop condition with     *)
(* the iteration or the return that follows it.  A call that was made      *)
(* runs on, which the fairness condition states.                           *)
(***************************************************************************)

\* the fingerprints of one width the utilities are called with: 0...0d and
\* its complement for the 64-bit width, all 0 and all f for the 256-bit one
UtilFingerprints(bits) ==
  IF bits = 256 THEN EngineHashes(256)
  ELSE Hashes \cup {HighHashStrings[d + 1] : d \in 0..MaxLowDigit}

\* hammingDistance(hash1, hash2) up to the loop
HammingCall(hash1, hash2) ==
  /\ hamming.pc # "loop"
  /\ hamming' = [pc |-> "loop", hash1 |-> hash1, hash2 |-> hash2,
                 xor |-> BigXor(hexToBigInt(hash1), hexToBigInt(hash2)), distance |-> 0]
  /\ UNCHANGED <<treeVars, sessionVars, taskVars, conversion>>

\* while (xor > 0n) { xor &= xor - 1n; distance++ } return distance
HammingLoop ==
  /\ hamming.pc = "loop"
  /\ hamming' = IF BigPositive(hamming.xor)
                THEN [hamming EXCEPT !.xor = ClearLowestSetBit(@), !.distance = @ + 1]
                ELSE [hamming EXCEPT !.pc = "returned"]
  /\ UNCHANGED <<treeVars, sessionVars, taskVars, conversion>>

\* distanceToSimilarity(distance, hashBits) and similarityToDistance of its
\* result
Convert(distance, hashBits) ==
  /\ conversion' = [distance |-> distance, hashBits |-> hashBits,
                    similarity |-> distanceToSimilarity(distance, hashBits),
                    back |-> similarityToDistance(distanceToSimilarity(distance, hashBits),
                                                  hashBits)]
  /\ UNCHANGED <<treeVars, sessionVars, taskVars, hamming>>

NextHamming ==
  \/ \E bits \in HashSizes : \E hash1, hash2 \in UtilFingerprints(bits) : HammingCall(hash1, hash2)
  \/ HammingLoop

SpecHamming == Init /\ [][NextHamming]_vars /\ WF_vars(HammingLoop)

NextConvert == \E hashBits \in HashSizes : \E distance \in 0..hashBits : Convert(distance, hashBits)

SpecConvert == Init /\ [][NextConvert]_vars

(***************************************************************************)
(* Properties of the BK-tree (specification Spec).                         *)
(***************************************************************************)
\* the brute-force linear scan: the stored pairs within threshold of the query
BruteForce(pairs, queryHash, threshold) ==
  BagFilter(pairs, LAMBDA p : Distance(queryHash, p.hash) <= threshold)

\* C1: the ids returned by search(query, threshold) are exactly the ids of the
\* stored pairs whose Hamming distance to the query is at most threshold
C1_SearchEqualsBruteForce ==
  \A queryHash \in Hashes, threshold \in Thresholds :
    \A res \in {search(tree, queryHash, threshold)} :
      {res[i].mediaId : i \in 1..Len(res)}
        = {p.mediaId : p \in DOMAIN BruteForce(stored, queryHash, threshold)}

\* a full tree on which some search returns some but not all of the nodes
C1_Witness ==
  /\ size(tree) = MaxNodes
  /\ \E queryHash \in Hashes, threshold \in Thresholds :
       /\ Len(search(tree, queryHash, threshold)) >= 2
       /\ Len(search(tree, queryHash, threshold)) < size(tree)

\* C2: after remove(id) returned true, no search returns id, and every search
\* returns exactly the stored pairs with another id that are within threshold,
\* each as often as it is stored
C2_RemoveCorrect ==
  (lastOp.name = "remove" /\ lastOp.ret) =>
    /\ \A p \in DOMAIN stored : p.mediaId # lastOp.mediaId
    /\ \A queryHash \in Hashes, threshold \in Thresholds :
         \A res \in {search(tree, queryHash, threshold)} :
           /\ \A i \in 1..Len(res) : res[i].mediaId # lastOp.mediaId
           /\ IsBagOf([i \in 1..Len(res) |-> [hash |-> res[i].hash, mediaId |-> res[i].mediaId]],
                      BruteForce(stored, queryHash, threshold))

\* a successful remove after which at least two nodes had to be reinserted
C2_Witness ==
  /\ lastOp.name = "remove"
  /\ lastOp.ret
  /\ size(tree) >= 2

\* C3: remove(id) of an id that is not stored returns false and leaves the
\* tree as it was: size, root and structure (the arena of nodes with their
\* children maps), hence the result of every search
C3_RemoveAbsent ==
  [][(lastOp'.name = "remove" /\ \A p \in DOMAIN stored : p.mediaId # lastOp'.mediaId) =>
       \A after \in {tree'} :
         /\ lastOp'.ret = FALSE
         /\ size(after) = size(tree)
         /\ after.root = tree.root
         /\ after.nodes = tree.nodes]_vars

\* remove of an absent id on a tree that holds at least two nodes
C3_Witness ==
  /\ lastOp.name = "remove"
  /\ lastOp.ret = FALSE
  /\ \A p \in DOMAIN stored : p.mediaId # lastOp.mediaId
  /\ size(tree) >= 2

\* the serialized list is well formed for the tree it was made from: node 0
\* is the root, count is the number of nodes, child indices are in range
WellFormedData(d, t) ==
  /\ d.count = Len(d.nodes)
  /\ t.root # 0 =>
       /\ d.nodes[1].hash = t.nodes[t.root].hash
       /\ d.nodes[1].mediaId = t.nodes[t.root].mediaId
  /\ \A i \in 1..Len(d.nodes) :
       \A k \in DOMAIN d.nodes[i].children :
         d.nodes[i].children[k] \in 0..(Len(d.nodes) - 1)

\* the (mediaId, distance) pairs of a result list, in its order
IdDistances(res) == [i \in 1..Len(res) |-> [mediaId |-> res[i].mediaId, distance |-> res[i].distance]]

\* C4: deserialize(serialize(T)) has the size of T and returns for every query
\* and threshold the same (id, distance) results as T; in the serialized list
\* node 0 is the root, count is the number of nodes and every child index
\* refers to an entry of the list
C4_RoundTrip ==
  [][lastOp'.name = "roundtrip" =>
       \A after \in {tree'}, d \in {serialize(tree)} :
         /\ size(after) = size(tree)
         /\ \A queryHash \in Hashes, threshold \in Thresholds :
              \A res1 \in {search(after, queryHash, threshold)},
                 res2 \in {search(tree, queryHash, threshold)} :
                \A pairs1 \in {IdDistances(res1)}, pairs2 \in {IdDistances(res2)} :
                  SameElements(pairs1, pairs2)
         /\ WellFormedData(d, tree)]_vars

\* a full tree just loaded from its serialized form, whose root has two
\* children
C4_Witness ==
  /\ lastOp.name = "roundtrip"
  /\ size(tree) = MaxNodes
  /\ Len(tree.nodes[tree.root].children) >= 2

\* C5: the list returned by search is non-decreasing in distance
C5_SearchSorted ==
  \A queryHash \in Hashes, threshold \in Thresholds :
    \A res \in {search(tree, queryHash, threshold)} :
      \A i \in 1..Len(res), j \in 1..Len(res) : i < j => res[i].distance <= res[j].distance

\* a tree and a search whose stack traversal meets the results out of
\* distance order
C5_Witness ==
  /\ tree.root # 0
  /\ \E queryHash \in Hashes, threshold \in Thresholds :
       /\ Len(search(tree, queryHash, threshold)) >= 2
       /\ SearchLoop(tree.nodes, <<tree.root>>, <<>>, queryHash, threshold)
            # search(tree, queryHash, threshold)

\* the number of nodes of a tree that carry the id
NodesWithId(t, mediaId) == Cardinality({i \in 1..Len(t.nodes) : t.nodes[i].mediaId = mediaId})

\* C20 as stated: remove(id) of an id present in the tree returns true and
\* decreases size() by exactly one
C20_RemoveDecrementsByOne ==
  [][(lastOp'.name = "remove" /\ NodesWithId(tree, lastOp'.mediaId) >= 1) =>
       /\ lastOp'.ret = TRUE
       /\ size(tree') = size(tree) - 1]_vars

\* C20 amended: remove(id) of an id present in the tree returns true and
\* decreases size() by the number of nodes that carry the id, which is one
\* when the id was inserted once; every node of the arena is counted by size()
C20_RemoveDecrementsByCount ==
  [][(lastOp'.name = "remove" /\ NodesWithId(tree, lastOp'.mediaId) >= 1) =>
       /\ lastOp'.ret = TRUE
       /\ size(tree) = Len(tree.nodes)
       /\ size(tree') = size(tree) - NodesWithId(tree, lastOp'.mediaId)
       /\ (NodesWithId(tree, lastOp'.mediaId) = 1 => size(tree') = size(tree) - 1)]_vars

\* a successful remove that took the last node, or the last two nodes with
\* the same id, out of the tree
C20_Witness ==
  /\ lastOp.name = "remove"
  /\ lastOp.ret
  /\ size(tree) = 0

(***************************************************************************)
(* Properties of SimilarityEngine.search (specification SpecEngine): in    *)
(* every state the search is applied to every query fingerprint set and    *)
(* every choice of options.                                                *)
(***************************************************************************)
InUnitInterval(x) == RatLeq(Rat(0, 1), x) /\ RatLeq(x, Rat(1, 1))

\* C6: every result of the engine's search has its fused weighted score and
\* its primary similarity in [0, 1], for the configured width of 64 or 256
C6_ScoresInUnitInterval ==
  \A queryHashes \in QueryFingerprintSets(hashSize), options \in SearchOptions(hashSize) :
    \A r \in {engineSearch(bkTrees, media, storageUp, queryHashes, options)} :
      \A i \in 1..Len(r.results) :
        /\ InUnitInterval(r.results[i].weightedScore)
        /\ InUnitInterval(r.results[i].similarity)

\* C8: the search throws whenever the query has no fingerprint for the
\* primary algorithm, whatever the state of the trees; with the fingerprint,
\* a missing or empty tree or a search without hits gives the empty list and
\* no call to the store
C8_MissingPrimaryThrows ==
  \A queryHashes \in QueryFingerprintSets(hashSize), options \in SearchOptions(hashSize) :
    \A r \in {engineSearch(bkTrees, media, storageUp, queryHashes, options)} :
      IF queryHashes[options.hashAlgorithm] = NoHash
      THEN r.outcome = "error" /\ r.calls = <<>>
      ELSE (\/ options.hashAlgorithm \notin DOMAIN bkTrees
            \/ isEmpty(bkTrees[options.hashAlgorithm])
            \/ search(bkTrees[options.hashAlgorithm], queryHashes[options.hashAlgorithm],
                      options.threshold) = <<>>)
             => (r.outcome = "ok" /\ r.results = <<>> /\ r.calls = <<>>)

\* the engine holds an empty tree for one algorithm and a tree with a node
\* that an exact-match search of the other algorithm misses
C8_Witness ==
  /\ storageUp
  /\ \E a \in DOMAIN bkTrees : isEmpty(bkTrees[a])
  /\ \E a \in DOMAIN bkTrees :
       /\ ~isEmpty(bkTrees[a])
       /\ \E h \in EngineHashes(hashSize) : search(bkTrees[a], h, 0) = <<>>

\* C9: with weights the returned list is non-increasing in weighted score,
\* without weights it is non-decreasing in primary distance
C9_ResultOrder ==
  \A queryHashes \in QueryFingerprintSets(hashSize), options \in SearchOptions(hashSize) :
    \A r \in {engineSearch(bkTrees, media, storageUp, queryHashes, options)} :
      \A i \in 1..Len(r.results), j \in 1..Len(r.results) :
        i < j =>
          IF options.weights.given
          THEN RatLeq(r.results[j].weightedScore, r.results[i].weightedScore)
          ELSE r.results[i].distance <= r.results[j].distance

\* a search with weights whose two results come back in the reverse of the
\* order of their primary distances
C9_Witness ==
  \E queryHashes \in QueryFingerprintSets(hashSize), options \in SearchOptions(hashSize) :
    \E r \in {engineSearch(bkTrees, media, storageUp, queryHashes, options)} :
      /\ options.weights.given
      /\ Len(r.results) = 2
      /\ r.results[1].distance > r.results[2].distance
      /\ RatLess(r.results[2].weightedScore, r.results[1].weightedScore)

\* sum of the fractions f[a] over the algorithms a of a finite set
RECURSIVE RatSum(_, _)
RatSum(S, f) ==
  IF S = {} THEN Rat(0, 1)
  ELSE LET a == CHOOSE x \in S : TRUE
       IN  RatAdd(f[a], RatSum(S \ {a}, f))

\* the weight configured for an algorithm
WeightOf(weights, algo) ==
  weights.entries[CHOOSE i \in 1..Len(weights.entries) : weights.entries[i].algo = algo].weight

\* the fused score as specified for a result of the given search: the weighted
\* mean of 1 - distance / bitWidth over the algorithms that have a weight and
\* an observed distance, the primary distance being the result's, and 0 when
\* the weights of these algorithms sum to 0
SpecifiedScore(result, queryHashes, options, bitWidth) ==
  LET weighted == {options.weights.entries[i].algo : i \in 1..Len(options.weights.entries)}
      observed == {a \in weighted : \/ a = options.hashAlgorithm
                                    \/ (queryHashes[a] # NoHash /\ result.hashes[a] # NoHash)}
      DistanceFor(a) == IF a = options.hashAlgorithm THEN result.distance
                        ELSE Distance(queryHashes[a], result.hashes[a])
      totalWeight == RatSum(observed, [a \in observed |-> WeightOf(options.weights, a)])
      totalScore == RatSum(observed,
                           [a \in observed |-> RatMul(WeightOf(options.weights, a),
                                                      Rat(bitWidth - DistanceFor(a), bitWidth))])
  IN  IF totalWeight.num = 0 THEN Rat(0, 1) ELSE RatDiv(totalScore, totalWeight)

\* C10: with weights the fused score of every result is the weighted mean of
\* the similarities 1 - distance / bitWidth of the algorithms that are both
\* weighted and observed, and 0 when none is
C10_WeightedFusion ==
  \A queryHashes \in QueryFingerprintSets(hashSize), options \in SearchOptions(hashSize) :
    \A r \in {engineSearch(bkTrees, media, storageUp, queryHashes, options)} :
      options.weights.given =>
        \A i \in 1..Len(r.results) :
          RatEq(r.results[i].weightedScore,
                SpecifiedScore(r.results[i], queryHashes, options, hashSize))

(***************************************************************************)
(* Properties of the session (specification SpecSession).                  *)
(***************************************************************************)
\* the methods that need a connected session
GuardedMethods ==
  {"add", "search", "remove", "get", "exists", "addBatch", "rebuildIndex", "getStats"}

\* C7: a call of a guarded method on a session that is not connected ends in
\* the not-connected error without a storage call, without hashing and with
\* the trees and the store as they were; on a connected session add, search
\* and remove never end in that error
C7_SessionStateMachine ==
  [][/\ (~connected /\ call'.name \in GuardedMethods) =>
          /\ call'.outcome = "notConnected"
          /\ call'.calls = <<>>
          /\ call'.hashed = FALSE
          /\ UNCHANGED <<bkTrees, media, treeData, connected, storageUp>>
     /\ (connected /\ call'.name \in {"add", "search", "remove"}) =>
          call'.outcome # "notConnected"]_vars

\* a call rejected after a connect() that failed while loading a tree: the
\* storage is up, the session is not connected
C7_Witness ==
  /\ ~connected
  /\ storageUp
  /\ call.name \in GuardedMethods
  /\ call.outcome = "notConnected"

\* C11: a search whose threshold lies in 0..bitWidth of the configured width
\* passes validation
C11_ThresholdUpToBitWidth ==
  [][\A input \in SearchInputs(hashSize) :
       (connected /\ input.threshold \in 0..hashSize /\ SearchMedia(input)) =>
         call'.outcome # "validationError"]_vars

\* C12: no stored media record and no successful add() has a fingerprint set
\* without any algorithm fingerprint
C12_NoEmptyFingerprintSet ==
  \A mediaId \in DOMAIN media : \E a \in AlgoSet : media[mediaId].hashes[a] # NoHash

\* the (id, distance) results of the searches of one tree are those of another
SameSearchResults(t1, t2, bits) ==
  \A queryHash \in EngineHashes(bits), threshold \in SearchThresholds(bits) :
    \A pairs1 \in {IdDistances(search(t1, queryHash, threshold))},
       pairs2 \in {IdDistances(search(t2, queryHash, threshold))} :
      SameElements(pairs1, pairs2)

\* C18: a disconnect() that completes leaves in the store, for every
\* configured algorithm, the serialized form of the in-memory tree; a connect()
\* that completes gives every algorithm the persisted tree, or an empty tree
\* when none is persisted, whatever trees the instance held, and on an
\* instance that had been connected before every search returns the same
\* (id, distance) results as on the trees it held at the disconnect
C18_PersistenceAcrossSessions ==
  [][/\ (call'.name = "disconnect" /\ connected /\ ~connected') =>
          /\ bkTrees' = bkTrees
          /\ \A a \in AlgoSet :
               /\ a \in DOMAIN treeData'
               /\ treeData'[a] = serialize(bkTrees[a])
     /\ (call'.name = "connect" /\ ~connected /\ connected') =>
          /\ treeData' = treeData
          /\ DOMAIN bkTrees' = AlgoSet
          /\ \A a \in AlgoSet :
               /\ bkTrees'[a] = IF a \in DOMAIN treeData THEN deserialize(treeData[a])
                                ELSE EmptyTree
               /\ DOMAIN bkTrees = AlgoSet => SameSearchResults(bkTrees'[a], bkTrees[a], hashSize)]_vars

\* a session that is connected again after a disconnect, with an entry in a
\* tree that it loaded from the store
C18_Witness ==
  /\ call.name = "connect"
  /\ connected
  /\ \E a \in DOMAIN bkTrees : ~isEmpty(bkTrees[a])

(***************************************************************************)
(* Properties of the index (specification SpecIndex).                      *)
(***************************************************************************)
\* the { hash, mediaId } pairs of the nodes of a tree, in arena order
NodePairs(t) == [i \in 1..Len(t.nodes) |-> [hash |-> t.nodes[i].hash, mediaId |-> t.nodes[i].mediaId]]

\* the pairs an index of the algorithm has to hold: one per stored record
\* that has a fingerprint for the algorithm
RecordPairs(store, algo) ==
  [p \in {[hash |-> store[id].hashes[algo], mediaId |-> id] :
            id \in {x \in DOMAIN store : store[x].hashes[algo] # NoHash}} |-> 1]

\* C19: after rebuildIndex() the tree of every configured algorithm holds
\* exactly one node per stored record that has a fingerprint for the
\* algorithm, with the record's fingerprint and id, and no other node, and
\* the store holds the serialized form of the rebuilt trees
C19_RebuildConsistent ==
  (call.name = "rebuildIndex" /\ call.outcome = "ok") =>
    \A a \in AlgoSet :
      /\ a \in DOMAIN bkTrees
      /\ IsBagOf(NodePairs(bkTrees[a]), RecordPairs(media, a))
      /\ size(bkTrees[a]) = Len(bkTrees[a].nodes)
      /\ a \in DOMAIN treeData
      /\ treeData[a] = serialize(bkTrees[a])

\* a rebuild over two stored records, one of which has no fingerprint for one
\* of the algorithms
C19_Witness ==
  /\ call.name = "rebuildIndex"
  /\ call.outcome = "ok"
  /\ Cardinality(DOMAIN media) = 2
  /\ \E a \in DOMAIN bkTrees : size(bkTrees[a]) = 1
  /\ \E a \in DOMAIN bkTrees : size(bkTrees[a]) = 2

(***************************************************************************)
(* Properties of addBatch (specification SpecBatch).  They are stated on   *)
(* the value of the last call: its inputs and options, the successful and  *)
(* failed lists, the calls of onProgress and the log of the adds.          *)
(***************************************************************************)
BatchRan == call.name = "addBatch" /\ call.outcome # "notConnected"

\* the positions of the log's events of a type, in log order
LogItems(log, type) ==
  LET events == SelectSeq(log, LAMBDA e : e.type = type)
  IN  [j \in 1..Len(events) |-> events[j].item]

\* the number of adds in flight after the first m events of the log
InFlight(log, m) ==
  Cardinality({j \in 1..m : log[j].type = "start"}) - Cardinality({j \in 1..m : log[j].type = "settle"})

\* ceil(n / c)
CeilDiv(n, c) == (n + c - 1) \div c

\* C13: the adds are started chunk by chunk in input order, an add starts
\* only after every add of the chunks before it has settled, at most
\* concurrency adds are in flight, and unless the batch is aborted onProgress
\* is called once after each chunk, ceil(n / concurrency) times in all, with
\* (min(i + concurrency, n), n), strictly increasing and ending with (n, n)
C13_BatchChunking ==
  BatchRan =>
    \A v \in {call.value} :
      \A n \in {Len(v.inputs)}, c \in {v.concurrency}, started \in {LogItems(v.log, "start")} :
        /\ \A j \in 1..Len(started) : started[j] = j
        /\ \A s \in 1..Len(v.log) :
             /\ InFlight(v.log, s) <= c
             /\ v.log[s].type = "start" =>
                  \A k \in 1..n :
                    ChunkOf(k, c) < ChunkOf(v.log[s].item, c) =>
                      \E t \in 1..(s - 1) : v.log[t] = Event("settle", k)
        /\ v.error = 0 =>
             /\ Len(v.progress) = CeilDiv(n, c)
             /\ \A r \in 1..Len(v.progress) :
                  /\ v.progress[r] = [completed |-> IF r * c < n THEN r * c ELSE n, total |-> n]
                  /\ r > 1 => v.progress[r - 1].completed < v.progress[r].completed
             /\ n > 0 => v.progress[Len(v.progress)] = [completed |-> n, total |-> n]
             /\ \A s \in 1..Len(v.log) :
                  v.log[s].type = "progress" =>
                    /\ InFlight(v.log, s) = 0
                    /\ Cardinality({t \in 1..s : v.log[t].type = "start"}) = v.log[s].item

\* a batch of three inputs in chunks of two that was not aborted
C13_Witness ==
  /\ BatchRan
  /\ Len(call.value.inputs) = 3
  /\ call.value.concurrency = 2
  /\ call.value.error = 0
  /\ Len(call.value.progress) = 2

\* the input is applied: its record is in the store, every tree holds a node
\* with its fingerprint and id, and the store holds the serialized trees
Applied(input) ==
  /\ input.mediaId \in DOMAIN media
  /\ media[input.mediaId].hashes = input.hashes
  /\ \A a \in AlgoSet :
       /\ \E i \in 1..Len(bkTrees[a].nodes) :
            /\ bkTrees[a].nodes[i].mediaId = input.mediaId
            /\ bkTrees[a].nodes[i].hash = input.hashes[a]
       /\ treeData[a] = serialize(bkTrees[a])

\* C14: without continueOnError a batch with a failing input rejects with the
\* error of the first failing input, starts no add of a chunk after that
\* input's chunk, and leaves applied every add that succeeded, those of the
\* failing chunk included
C14_AbortOnFirstFailure ==
  (BatchRan /\ ~call.value.continueOnError) =>
    \A v \in {call.value} :
      \A failing \in {{k \in 1..Len(v.inputs) : ~v.inputs[k].valid}},
         started \in {Range(LogItems(v.log, "start"))} :
        IF failing = {}
        THEN call.outcome = "ok" /\ v.error = 0
        ELSE /\ call.outcome = "validationError"
             /\ v.error \in failing
             /\ \A k \in failing : v.error <= k
             /\ started = StartedAdds(v.inputs, v.concurrency, FALSE)
             /\ \A k \in 1..Len(v.inputs) :
                  ChunkOf(k, v.concurrency) > ChunkOf(v.error, v.concurrency) => k \notin started
             /\ \A k \in started : v.inputs[k].valid => Applied(v.inputs[k])
             /\ Len(call.calls)
                  = (1 + Len(Algorithms)) * Cardinality({k \in started : v.inputs[k].valid})

\* an aborted batch whose first input failed, whose second input, of the same
\* chunk, was added, and whose third input was never started
C14_Witness ==
  /\ BatchRan
  /\ ~call.value.continueOnError
  /\ Len(call.value.inputs) = 3
  /\ call.value.concurrency = 2
  /\ call.value.error = 1
  /\ call.value.inputs[2].valid

\* C15: with continueOnError the batch never rejects, every chunk is run, and
\* every input is in exactly one of successful and failed, failed carrying
\* the input itself, both lists in input order
C15_ContinueOnError ==
  (BatchRan /\ call.value.continueOnError) =>
    \A v \in {call.value} :
      /\ call.outcome = "ok"
      /\ Range(LogItems(v.log, "start")) = 1..Len(v.inputs)
      /\ Len(v.progress) = CeilDiv(Len(v.inputs), v.concurrency)
      /\ Len(v.successful) + Len(v.failed) = Len(v.inputs)
      /\ v.successful = SelectSeq([k \in 1..Len(v.inputs) |-> k], LAMBDA k : v.inputs[k].valid)
      /\ [j \in 1..Len(v.failed) |-> v.failed[j].error]
           = SelectSeq([k \in 1..Len(v.inputs) |-> k], LAMBDA k : ~v.inputs[k].valid)
      /\ \A j \in 1..Len(v.failed) : v.failed[j].input = v.inputs[v.failed[j].error]
      /\ \A k \in Range(v.successful) : Applied(v.inputs[k])

\* a batch of three inputs that went on after a failure in its first chunk
C15_Witness ==
  /\ BatchRan
  /\ call.value.continueOnError
  /\ Len(call.value.inputs) = 3
  /\ call.value.concurrency = 2
  /\ Len(call.value.failed) >= 1
  /\ ~call.value.inputs[1].valid
  /\ call.value.inputs[3].valid

(***************************************************************************)
(* Properties of the methods under storage failures (specification         *)
(* SpecFailure).                                                           *)
(***************************************************************************)
WritingMethods == {"add", "remove", "rebuildIndex", "disconnect"}

\* C16: a method that rejects with a storage error leaves the store with
\* none of its writes applied or with all of them: the record written or
\* deleted and the serialized tree of every algorithm
C16_NoPartialCommit ==
  [][(call'.outcome = "storageError" /\ call'.name \in WritingMethods) =>
       \/ media' = media /\ treeData' = treeData
       \/ /\ call'.name = "add" => call'.value \in DOMAIN media'
          /\ call'.name = "remove" => call'.value \notin DOMAIN media'
          /\ \A a \in AlgoSet : a \in DOMAIN treeData' /\ treeData'[a] = serialize(bkTrees'[a])]_vars

(***************************************************************************)
(* Properties of concurrent adds (specification SpecConcurrent).           *)
(***************************************************************************)

\* at least two add() calls were made, one of them while another was
\* running, every one of them has returned and no command is pending
ConcurrentAddsDone ==
  /\ Cardinality(DOMAIN tasks) >= 2
  /\ \E t \in DOMAIN tasks : tasks[t].concurrent
  /\ \A t \in DOMAIN tasks : tasks[t].pc = "done"
  /\ pending = <<>>

\* the persisted tree of the algorithm holds the index entry of the task
Persisted(t, a) ==
  /\ a \in DOMAIN treeData
  /\ \E i \in 1..Len(treeData[a].nodes) :
       /\ treeData[a].nodes[i].mediaId = tasks[t].mediaId
       /\ treeData[a].nodes[i].hash = tasks[t].hashes[a]

\* the store finally holds a tree that lacks an entry one of the adds inserted
LostUpdate ==
  /\ ConcurrentAddsDone
  /\ \E t \in DOMAIN tasks, a \in AlgoSet : tasks[t].hashes[a] # NoHash /\ ~Persisted(t, a)

\* C17 as stated: concurrent adds on one session end with a lost update
C17_LostUpdateReached == <>LostUpdate

\* C17, amended: when concurrent add() calls on one session have all
\* returned, the persisted tree of every algorithm is the serialized
\* in-memory tree and holds the entry of every add: the adds insert into the
\* shared trees, every write carries the tree as it is when the write is
\* sent, and the store serves the writes in the order sent
C17_NoLostUpdate ==
  ConcurrentAddsDone =>
    \A a \in AlgoSet :
      /\ a \in DOMAIN treeData
      /\ treeData[a] = serialize(bkTrees[a])
      /\ \A t \in DOMAIN tasks : tasks[t].hashes[a] # NoHash => Persisted(t, a)

\* two adds of different media that ran concurrently and have both returned
C17_Witness ==
  /\ ConcurrentAddsDone
  /\ \E t, u \in DOMAIN tasks :
       /\ tasks[t].mediaId # tasks[u].mediaId
       /\ \A a \in AlgoSet : tasks[t].hashes[a] # NoHash /\ tasks[u].hashes[a] # NoHash

(***************************************************************************)
(* Properties of hammingDistance (specification SpecHamming).              *)
(***************************************************************************)

\* two hex strings of one length whose digits add up to f in every place
Complementary(hash1, hash2) ==
  /\ Len(Characters(hash1)) = Len(Characters(hash2))
  /\ \A i \in 1..Len(Characters(hash1)) :
       HexDigitValue(Characters(hash1)[i]) + HexDigitValue(Characters(hash2)[i]) = 15

\* the fingerprints of the width of a fingerprint
SameWidth(hash) == UtilFingerprints(4 * Len(Characters(hash)))

\* what a returned call of hammingDistance(a, b) has to satisfy
HammingMetric ==
  hamming.pc = "returned" =>
    \A a \in {hamming.hash1}, b \in {hamming.hash2}, d \in {hamming.distance} :
      /\ d = hammingDistance(a, b)
      /\ d = hammingDistance(b, a)
      /\ a = b => d = 0
      /\ Complementary(a, b) => d = 4 * Len(Characters(a))
      /\ \A c \in SameWidth(a) :
           /\ hammingDistance(a, c) <= d + hammingDistance(b, c)
           /\ d <= hammingDistance(a, c) + hammingDistance(c, b)

\* C21: hammingDistance is symmetric, satisfies the triangle inequality, is
\* 0 for identical fingerprints and the bit width for bitwise-complementary
\* ones, and its bit-clearing loop terminates: every call returns
C21_HammingMetric == []HammingMetric /\ (hamming.pc = "loop" ~> hamming.pc = "returned")

\* a returned call on bitwise-complementary 256-bit fingerprints
C21_Witness ==
  /\ hamming.pc = "returned"
  /\ hamming.hash1 # hamming.hash2
  /\ Complementary(hamming.hash1, hamming.hash2)
  /\ hamming.distance = 256

(***************************************************************************)
(* Properties of the conversions (specification SpecConvert).              *)
(***************************************************************************)

\* C22: for every integer d in [0, bitWidth], similarityToDistance of
\* distanceToSimilarity(d, bitWidth) is d; distanceToSimilarity is 1 at 0,
\* 0 at bitWidth and 1/2 at bitWidth / 2
C22_InverseLaws ==
  /\ conversion.back = conversion.distance
  /\ conversion.distance = 0 => RatEq(conversion.similarity, Rat(1, 1))
  /\ conversion.distance = conversion.hashBits => RatEq(conversion.similarity, Rat(0, 1))
  /\ 2 * conversion.distance = conversion.hashBits =>
       /\ RatEq(conversion.similarity, Rat(1, 2))
       /\ similarityToDistance(Rat(1, 2), conversion.hashBits) = conversion.distance

\* distanceToSimilarity(32, 64) = 0.5 and similarityToDistance(0.5, 64) = 32
C22_Witness ==
  /\ conversion.distance = 32
  /\ conversion.hashBits = 64
  /\ RatEq(conversion.similarity, Rat(1, 2))
  /\ conversion.back = 32

(***************************************************************************)
(* Properties of re-adding an id (specification SpecIndex).                *)
(***************************************************************************)

\* C23: an add() of an id that is already stored leaves one record for the
\* id, with the fingerprints of this add, and every other record as it was;
\* every tree the add has a fingerprint for keeps all its nodes, the earlier
\* ones of the id included, and gains one node with the new fingerprint and
\* the id, so its size grows by one; the other trees are unchanged
C23_ReAddKeepsOldEntries ==
  [][(call'.name = "add" /\ call'.outcome = "ok" /\ DOMAIN media' = DOMAIN media) =>
       \E mediaId \in DOMAIN media :
         /\ \A other \in DOMAIN media \ {mediaId} : media'[other] = media[other]
         /\ media'[mediaId].id = mediaId
         /\ \A a \in AlgoSet :
              IF media'[mediaId].hashes[a] = NoHash
              THEN bkTrees'[a] = bkTrees[a]
              ELSE /\ size(bkTrees'[a]) = size(bkTrees[a]) + 1
                   /\ NodesWithId(bkTrees'[a], mediaId) = NodesWithId(bkTrees[a], mediaId) + 1
                   /\ NodePairs(bkTrees'[a])
                        = Append(NodePairs(bkTrees[a]),
                                 [hash |-> media'[mediaId].hashes[a], mediaId |-> mediaId])]_vars

\* after a second add of an id with another fingerprint the tree holds two
\* nodes for the id, one with each fingerprint, and the store one record,
\* with the later fingerprint
C23_Witness ==
  /\ call.name = "add"
  /\ call.outcome = "ok"
  /\ \E mediaId \in DOMAIN media, a \in AlgoSet :
       /\ size(bkTrees[a]) = 2
       /\ NodesWithId(bkTrees[a], mediaId) = 2
       /\ bkTrees[a].nodes[1].hash # bkTrees[a].nodes[2].hash
       /\ media[mediaId].hashes[a] = bkTrees[a].nodes[2].hash

(***************************************************************************)
(* Properties of the truncation of engine search (specification            *)
(* SpecEngine).                                                            *)
(***************************************************************************)

\* the list SimilarityEngine.search returns when the limit cuts nothing off
FullResults(queryHashes, options) ==
  engineSearch(bkTrees, media, storageUp, queryHashes,
               [options EXCEPT !.limit = IF options.hashAlgorithm \in DOMAIN bkTrees
                                         THEN size(bkTrees[options.hashAlgorithm]) + 1
                                         ELSE 1]).results

\* result a is ranked strictly better than result b
RankedBetter(a, b, weights) ==
  IF weights.given THEN RatLess(b.weightedScore, a.weightedScore)
  ELSE a.distance < b.distance

\* C24: SimilarityEngine.search returns at most limit results, each with a
\* primary distance of at most the threshold, and the list is the first
\* min(limit, n) elements of the list of all n sorted candidates, so that no
\* candidate left out is ranked better than a returned one
C24_LimitAndThreshold ==
  \A queryHashes \in QueryFingerprintSets(hashSize), options \in SearchOptions(hashSize) :
    \A r \in {engineSearch(bkTrees, media, storageUp, queryHashes, options)} :
      \A full \in {FullResults(queryHashes, options)} :
        /\ Len(r.results) <= options.limit
        /\ \A i \in 1..Len(r.results) : r.results[i].distance <= options.threshold
        /\ Len(r.results) = IF options.limit < Len(full) THEN options.limit ELSE Len(full)
        /\ r.results = SubSeq(full, 1, Len(r.results))
        /\ \A i \in 1..Len(r.results), j \in (Len(r.results) + 1)..Len(full) :
             ~RankedBetter(full[j], r.results[i], options.weights)

\* a search with limit 1 over two candidates within the threshold: the one
\* returned is ranked strictly better than the one cut off
C24_Witness ==
  \E queryHashes \in QueryFingerprintSets(hashSize), options \in SearchOptions(hashSize) :
    \E r \in {engineSearch(bkTrees, media, storageUp, queryHashes, options)} :
      \E full \in {FullResults(queryHashes, options)} :
        /\ options.limit = 1
        /\ Len(full) = 2
        /\ Len(r.results) = 1
        /\ RankedBetter(r.results[1], full[2], options.weights)

(***************************************************************************)
(* Properties of repeated connect() and disconnect() (specification        *)
(* SpecReconnect).                                                         *)
(***************************************************************************)

\* some in-memory tree differs from what the store holds for its algorithm
TreesAheadOfStore ==
  \E a \in DOMAIN bkTrees : a \notin DOMAIN treeData \/ treeData[a] # serialize(bkTrees[a])

\* C25: connect() on a connected session and disconnect() on a session that
\* is not connected return normally without a storage call and leave the
\* connected flag, the adapter, the in-memory trees and the store as they
\* were, also when the trees hold what the store does not
C25_IdempotentConnect ==
  [][((call'.name = "connect" /\ connected) \/ (call'.name = "disconnect" /\ ~connected)) =>
       /\ call'.outcome = "ok"
       /\ call'.calls = <<>>
       /\ UNCHANGED <<hashSize, connected, storageUp, bkTrees, media, treeData>>]_vars

\* a connect() has returned on a connected session whose trees are ahead of
\* the store
C25_Witness ==
  /\ call.name = "connect"
  /\ call.calls = <<>>
  /\ connected
  /\ TreesAheadOfStore
  /\ \E a \in DOMAIN bkTrees : ~isEmpty(bkTrees[a])

(***************************************************************************)
(* Properties of the shape of the tree (specification Spec).               *)
(***************************************************************************)

\* C26: the key under which a node holds a child is the Hamming distance
\* between the fingerprints of the two, a node holds one child per key, and
\* every node of the subtree below that child is at that distance from the
\* node
C26_EdgeInvariant ==
  \A p \in 1..Len(tree.nodes) :
    \A i \in 1..Len(tree.nodes[p].children) :
      \A edge \in {tree.nodes[p].children[i]} :
        /\ edge.distance = Distance(tree.nodes[p].hash, tree.nodes[edge.child].hash)
        /\ \A j \in 1..Len(tree.nodes[p].children) :
             tree.nodes[p].children[j].distance = edge.distance => j = i
        /\ \A n \in Range(Preorder(tree.nodes, edge.child)) :
             Distance(tree.nodes[p].hash, tree.nodes[n].hash) = edge.distance

\* a tree of depth two that went through serialize and deserialize: the
\* grandchild is at the key's distance from the root and at another distance
\* from its parent
C26_Witness ==
  /\ lastOp.name = "roundtrip"
  /\ tree.root # 0
  /\ \E i \in 1..Len(tree.nodes[tree.root].children) :
       \E edge \in {tree.nodes[tree.root].children[i]} :
         \E j \in 1..Len(tree.nodes[edge.child].children) :
           tree.nodes[edge.child].children[j].distance # edge.distance

\* the pair at the root of a tree that is not empty
RootPair(t) == [hash |-> t.nodes[t.root].hash, mediaId |-> t.nodes[t.root].mediaId]

\* the pairs of the tree in the order of the traversal from the root
TraversalPairs(t) ==
  IF t.root = 0 THEN <<>>
  ELSE LET order == Preorder(t.nodes, t.root)
       IN  [i \in 1..Len(order) |->
              [hash |-> t.nodes[order[i]].hash, mediaId |-> t.nodes[order[i]].mediaId]]

\* C27: an insert into the empty tree puts its pair at the root; an insert
\* into another tree keeps the root and every node with its pair and its
\* children, except that one node gains the new node as a child under a new
\* key, and the new node is a leaf; a remove of an id other than the root's
\* keeps the pair at the root, and a remove of the root's id puts the first
\* pair with another id in traversal order at the root, or empties the tree
C27_RootStability ==
  [][/\ (lastOp'.name = "insert" /\ isEmpty(tree)) =>
          /\ ~isEmpty(tree')
          /\ DOMAIN stored' = {RootPair(tree')}
     /\ (lastOp'.name = "insert" /\ ~isEmpty(tree)) =>
          /\ tree'.root = tree.root
          /\ Len(tree'.nodes) = Len(tree.nodes) + 1
          /\ tree'.nodes[Len(tree'.nodes)].children = <<>>
          /\ \E parent \in 1..Len(tree.nodes) :
               /\ \A n \in 1..Len(tree.nodes) :
                    /\ tree'.nodes[n].hash = tree.nodes[n].hash
                    /\ tree'.nodes[n].mediaId = tree.nodes[n].mediaId
                    /\ n # parent => tree'.nodes[n].children = tree.nodes[n].children
               /\ \E distance \in 0..DefaultHashBits :
                    /\ MapGet(tree.nodes[parent].children, distance) = 0
                    /\ tree'.nodes[parent].children
                         = Append(tree.nodes[parent].children,
                                  [distance |-> distance, child |-> Len(tree'.nodes)])
     /\ (lastOp'.name = "remove" /\ ~isEmpty(tree)) =>
          \A kept \in {SelectSeq(TraversalPairs(tree),
                                 LAMBDA p : p.mediaId # lastOp'.mediaId)} :
            /\ RootPair(tree).mediaId # lastOp'.mediaId =>
                 ~isEmpty(tree') /\ RootPair(tree') = RootPair(tree)
            /\ RootPair(tree).mediaId = lastOp'.mediaId =>
                 IF kept = <<>> THEN isEmpty(tree')
                 ELSE ~isEmpty(tree') /\ RootPair(tree') = Head(kept)]_vars

\* a remove dropped a node and rebuilt a tree of two nodes with different
\* fingerprints
C27_Witness ==
  /\ lastOp.name = "remove"
  /\ lastOp.ret
  /\ size(tree) = 2
  /\ RootPair(tree).mediaId # lastOp.mediaId
  /\ RootPair(tree).hash # tree.nodes[2].hash

(***************************************************************************)
(* Properties of the node count (specification SpecEntries).               *)
(***************************************************************************)

\* the number of elements of a bag, copies counted
RECURSIVE BagSize(_)
BagSize(bag) ==
  IF DOMAIN bag = {} THEN 0
  ELSE LET x == CHOOSE y \in DOMAIN bag : TRUE
       IN  bag[x] + BagSize([y \in DOMAIN bag \ {x} |-> bag[y]])

\* the nodes that are reached from the root
ReachableNodes(t) == IF t.root = 0 THEN {} ELSE Range(Preorder(t.nodes, t.root))

\* C28: size() is the number of nodes reached from the root, isEmpty() holds
\* exactly when size() is 0, and size() is the number of pairs inserted, by
\* insert or by fromEntries, less the nodes dropped by removes, where a remove
\* drops the nodes that carry its id and serialize/deserialize none
C28_NodeCount ==
  /\ [](/\ size(tree) = Cardinality(ReachableNodes(tree))
        /\ isEmpty(tree) <=> size(tree) = 0
        /\ size(tree) = BagSize(stored))
  /\ [][/\ lastOp'.name = "insert" => BagSize(stored') = BagSize(stored) + 1
        /\ lastOp'.name = "remove" =>
             BagSize(stored') = BagSize(stored)
               - Cardinality({n \in ReachableNodes(tree) : tree.nodes[n].mediaId = lastOp'.mediaId})
        /\ lastOp'.name = "roundtrip" => BagSize(stored') = BagSize(stored)]_vars

\* a tree that holds one pair twice went through serialize and deserialize:
\* two nodes are reached from the root and size() is 2
C28_Witness ==
  /\ lastOp.name = "roundtrip"
  /\ size(tree) = 2
  /\ Cardinality(ReachableNodes(tree)) = 2
  /\ \E p \in DOMAIN stored : stored[p] = 2

(***************************************************************************)
(* Properties of the order of writes of add() (specification SpecAdd).     *)
(***************************************************************************)

\* the nodes of the trees after a step that the trees before it did not hold
NewIndexEntries(before, after) ==
  UNION {{[algo |-> a, mediaId |-> after[a].nodes[n].mediaId] :
            n \in {i \in 1..Len(after[a].nodes) :
                     a \in DOMAIN before => i > Len(before[a].nodes)}} :
           a \in DOMAIN after}

\* C29: an add() that is rejected before its saveMedia completed, by the
\* connected check, by validation, while the source is read and hashed or by
\* saveMedia itself, leaves the in-memory trees, the persisted trees and the
\* records as they were; whenever an add() changes a tree its first storage
\* call was saveMedia, and every node it adds carries the id of a record
\* that the store holds, with the fingerprints of this add
C29_SaveBeforeIndex ==
  [][call'.name = "add" =>
       /\ (\/ call'.outcome \in {"notConnected", "validationError", "sourceError"}
           \/ call'.outcome = "storageError" /\ call'.calls = <<"saveMedia">>) =>
            /\ bkTrees' = bkTrees
            /\ treeData' = treeData
            /\ media' = media
       /\ bkTrees' # bkTrees =>
            /\ call'.calls # <<>>
            /\ Head(call'.calls) = "saveMedia"
       /\ \A e \in NewIndexEntries(bkTrees, bkTrees') :
            /\ e.mediaId \in DOMAIN media'
            /\ \E n \in 1..Len(bkTrees'[e.algo].nodes) :
                 /\ bkTrees'[e.algo].nodes[n].mediaId = e.mediaId
                 /\ bkTrees'[e.algo].nodes[n].hash = media'[e.mediaId].hashes[e.algo]]_vars

\* an add() was rejected by saveMedia on a session whose trees hold an entry
C29_Witness ==
  /\ call.name = "add"
  /\ call.outcome = "storageError"
  /\ call.calls = <<"saveMedia">>
  /\ \E a \in DOMAIN bkTrees : ~isEmpty(bkTrees[a])
  /\ call.value \notin DOMAIN media

(***************************************************************************)
(* Properties of the agreement of trees and store (specification           *)
(* SpecRestart).                                                           *)
(***************************************************************************)

\* the trees a connect() would load from the store as it is
LoadedTrees == initialize(bkTrees, treeData, Algorithms)

\* C30: in a connected session whose storage calls succeed and whose calls
\* run one after the other, after every add() and remove(), whatever it
\* returned, the tree a connect() would load for an algorithm has the size
\* of the in-memory tree and returns the same (id, distance) results for
\* every search
C30_MemoryStoreAgreement ==
  (connected /\ call.name \in {"add", "remove"}) =>
    \A a \in AlgoSet :
      /\ a \in DOMAIN bkTrees
      /\ size(LoadedTrees[a]) = size(bkTrees[a])
      /\ SameSearchResults(LoadedTrees[a], bkTrees[a], hashSize)

====
